---- MODULE Spec2Model ----
(***************************************************************************)
(* Model of the spreadsheet ingestion / reconciliation core of the          *)
(* analise-siaa viewer (App component, two revisions, and the preview       *)
(* modal).  JavaScript strings are sequences of one-character strings, so   *)
(* that String(), trim() and join('|') are computed, not assumed.  Cell     *)
(* values are tagged records: null, undefined, string, number, boolean.     *)
(* JavaScript indices are 0-based; sequences here are 1-based, so the row   *)
(* with JavaScript index i is allData[i + 1].                               *)
(***************************************************************************)
EXTENDS Integers, Sequences, FiniteSets, TLC

VARIABLES
  allSheets,              \* useState: key -> StoredSheet held in memory
  store,                  \* localStorage['spreadsheets'] (after JSON)
  currentSheetKey,        \* useState: key of the open sheet, NoKey for null
  showMainMenu,           \* useState
  filters,                \* useState: visible filter strings
  debouncedFilters,       \* useState: applied filter strings
  sortConfig,             \* useState: NoSort or [key, direction]
  mergeReport,            \* useState: NoReport or [updated, new]
  pendingFileData,        \* useState: NoData or a SheetData
  isUpdatingCurrentSheet, \* useState
  isUpdatingRef,          \* useRef
  showDataPreview,        \* useState
  previewData,            \* useState: NoData or a SheetData
  isLoadingFile,          \* useState
  fileDialogOpen,         \* the browser's file picker is open
  readers,                \* FileReader operations in flight
  storageFull,            \* localStorage.setItem throws (quota exceeded)
  alertMsg,               \* the alert() raised by the last step, "" if none
  decode,                 \* locals of reader.onload when the last step ran it
  merged,                 \* inputs of the merge whose report is showing
  filterTimeoutRef,       \* useRef: the pending debounce timer, NoTimer if none
  scrollTop,              \* DataTable useState
  containerHeight,        \* DataTable useState
  scrollTimeoutRef,       \* DataTable useRef: the frame requested last
  animationFrames         \* the browser's queue of requested frame callbacks

appVars == <<allSheets, store, currentSheetKey, showMainMenu, filters,
             debouncedFilters, sortConfig, mergeReport, pendingFileData,
             isUpdatingCurrentSheet, isUpdatingRef, showDataPreview,
             previewData, isLoadingFile>>
envVars == <<fileDialogOpen, readers, storageFull, alertMsg>>
logVars == <<decode, merged>>
tableVars == <<scrollTop, containerHeight, scrollTimeoutRef, animationFrames>>
viewVars == <<filterTimeoutRef, tableVars>>
vars == <<appVars, envVars, logVars, viewVars>>

(***************************************************************************)
(* Bounds of the model.                                                     *)
(***************************************************************************)
MaxRows == 6        \* rows of a raw matrix in the ingestion specification
MaxFileRows == 2    \* data rows of a file in the application specifications
MaxInFlight == 1    \* file imports in flight at once (second revision)

(***************************************************************************)
(* Cell values and strings.                                                 *)
(***************************************************************************)
Null == [t |-> "null"]
Undef == [t |-> "undefined"]
Str(s) == [t |-> "string", s |-> s]
Num(n) == [t |-> "number", n |-> n]
Bool(b) == [t |-> "boolean", b |-> b]

NoKey == ""
NoData == [none |-> "data"]
NoReport == [none |-> "report"]
NoSort == [none |-> "sort"]
NoDecode == [none |-> "decode"]
NoMerge == [none |-> "merge"]
NoTimer == [none |-> "timer"]
NoFrame == [none |-> "frame"]
EmptyMap == [x \in {} |-> x]

Range(s) == {s[i] : i \in DOMAIN s}

\* seq[i] for a JavaScript index i; undefined past the end
At(row, i) == IF i + 1 \in DOMAIN row THEN row[i + 1] ELSE Undef

\* obj[k]; undefined for a missing property
Get(obj, k) == IF k \in DOMAIN obj THEN obj[k] ELSE Undef

WhiteSpace == {" ", "\t", "\n"}

RECURSIVE TrimStart(_)
TrimStart(s) ==
  IF s # <<>> /\ Head(s) \in WhiteSpace THEN TrimStart(Tail(s)) ELSE s

RECURSIVE TrimEnd(_)
TrimEnd(s) ==
  IF s # <<>> /\ s[Len(s)] \in WhiteSpace
  THEN TrimEnd(SubSeq(s, 1, Len(s) - 1)) ELSE s

\* String.prototype.trim
Trim(s) == TrimEnd(TrimStart(s))

DigitChar(d) == <<"0", "1", "2", "3", "4", "5", "6", "7", "8", "9">>[d + 1]

RECURSIVE NatToString(_)
NatToString(n) ==
  IF n < 10 THEN <<DigitChar(n)>>
  ELSE NatToString(n \div 10) \o <<DigitChar(n % 10)>>

\* String(value)
JsString(c) ==
  CASE c.t = "null" -> <<"n", "u", "l", "l">>
    [] c.t = "undefined" -> <<"u", "n", "d", "e", "f", "i", "n", "e", "d">>
    [] c.t = "string" -> c.s
    [] c.t = "number" ->
         IF c.n < 0 THEN <<"-">> \o NatToString(-c.n) ELSE NatToString(c.n)
    [] c.t = "boolean" ->
         IF c.b THEN <<"t", "r", "u", "e">> ELSE <<"f", "a", "l", "s", "e">>

(***************************************************************************)
(* Header Detector and Row Normalizer: the body of reader.onload.           *)
(***************************************************************************)
\* cell !== null && cell !== undefined && String(cell).trim() !== ''
IsValidCell(cell) ==
  cell # Null /\ cell # Undef /\ Trim(JsString(cell)) # <<>>

ValidCells(row) == SelectSeq(row, IsValidCell)

\* validCells.length >= 3 && validCells.every(cell => typeof cell === 'string')
IsStringHeaderRow(row) ==
  /\ Len(ValidCells(row)) >= 3
  /\ \A i \in DOMAIN ValidCells(row) : ValidCells(row)[i].t = "string"

\* mutant: the scan is not limited to the first five rows
FirstNonEmptyRowUnbounded(allData) ==
  LET hits == {i \in 0..(Len(allData) - 1) :
                 Len(ValidCells(allData[i + 1])) >= 2}
  IN IF hits = {} THEN -1
     ELSE CHOOSE i \in hits : \A j \in hits : i <= j

\* the fallback loop: first i < Math.min(5, length) with >= 2 valid cells
FirstNonEmptyRow(allData) ==
  LET limit == IF Len(allData) < 5 THEN Len(allData) ELSE 5
      hits == {i \in 0..(limit - 1) : Len(ValidCells(allData[i + 1])) >= 2}
  IN IF hits = {} THEN -1
     ELSE CHOOSE i \in hits : \A j \in hits : i <= j

\* mutant: the first non-empty row is tried before rows 1 and 2
DetectHeaderRowScanFirst(allData) ==
  IF FirstNonEmptyRow(allData) # -1 THEN FirstNonEmptyRow(allData)
  ELSE IF Len(allData) > 1 /\ IsStringHeaderRow(allData[2]) THEN 1
  ELSE IF Len(allData) > 2 /\ IsStringHeaderRow(allData[3]) THEN 2
  ELSE -1

\* headerRowIndex after the three attempts; -1 when none found
DetectHeaderRow(allData) ==
  IF Len(allData) > 1 /\ IsStringHeaderRow(allData[2]) THEN 1
  ELSE IF Len(allData) > 2 /\ IsStringHeaderRow(allData[3]) THEN 2
  ELSE FirstNonEmptyRow(allData)

\* mutant: only null and undefined end the span, a blank string does not
LastValidIndexNullOnly(potentialHeaders) ==
  LET blanks == {i \in 0..(Len(potentialHeaders) - 1) :
                   potentialHeaders[i + 1] \in {Null, Undef}}
  IN IF blanks = {} THEN Len(potentialHeaders)
     ELSE CHOOSE i \in blanks : \A j \in blanks : i <= j

\* lastValidIndex: index of the first null / undefined / blank header cell
LastValidIndex(potentialHeaders) ==
  LET blanks == {i \in 0..(Len(potentialHeaders) - 1) :
                   LET header == potentialHeaders[i + 1]
                   IN header = Null \/ header = Undef
                      \/ Trim(JsString(header)) = <<>>}
  IN IF blanks = {} THEN Len(potentialHeaders)
     ELSE CHOOSE i \in blanks : \A j \in blanks : i <= j

\* potentialHeaders.slice(0, lastValidIndex).map(String)
HeaderSpan(potentialHeaders) ==
  [i \in 1..LastValidIndex(potentialHeaders) |->
     JsString(potentialHeaders[i])]

\* headers.forEach((header, index) => rowObject[header] = rowData[index])
RowObject(headers, rowData) ==
  [h \in Range(headers) |->
     LET last == CHOOSE i \in DOMAIN headers :
                   headers[i] = h /\ \A j \in DOMAIN headers :
                                        headers[j] = h => j <= i
     IN At(rowData, last - 1)]

\* Object.values(row).some(val => val !== null && val !== undefined)
HasValue(row) == \E h \in DOMAIN row : row[h] # Null /\ row[h] # Undef

\* allData.slice(headerRowIndex + 1).map(...).filter(...)
NormalizeRows(allData, headers, headerRowIndex) ==
  LET dataRows == SubSeq(allData, headerRowIndex + 2, Len(allData))
      objects == [i \in DOMAIN dataRows |-> RowObject(headers, dataRows[i])]
  IN SelectSeq(objects, HasValue)

ErrInsufficient == "A planilha esta vazia ou nao contem dados suficientes."
ErrNoHeader == "Nao foi possivel detectar o cabecalho da planilha."
ErrNoColumns == "Nenhuma coluna valida encontrada."
ErrUnreadable == "Nao foi possivel ler o arquivo."
ErrReader == "Erro ao ler o arquivo."

\* mutant: the allData.length < 2 test is missing
ParseSheetAnyLength(file) ==
  LET allData == file.allData
      headerRowIndex == DetectHeaderRow(allData)
      headers == HeaderSpan(allData[headerRowIndex + 1])
  IN IF file.corrupt
     THEN [error |-> ErrUnreadable, allData |-> <<>>, headerRowIndex |-> -1,
           headers |-> <<>>, rows |-> <<>>]
     ELSE IF headerRowIndex = -1
     THEN [error |-> ErrNoHeader, allData |-> allData,
           headerRowIndex |-> -1, headers |-> <<>>, rows |-> <<>>]
     ELSE IF Len(headers) = 0
     THEN [error |-> ErrNoColumns, allData |-> allData,
           headerRowIndex |-> headerRowIndex, headers |-> <<>>,
           rows |-> <<>>]
     ELSE [error |-> "", allData |-> allData,
           headerRowIndex |-> headerRowIndex, headers |-> headers,
           rows |-> NormalizeRows(allData, headers, headerRowIndex)]

\* the try block of reader.onload, as the values of its locals when it ends
ParseSheet(file) ==
  LET allData == file.allData
      headerRowIndex == DetectHeaderRow(allData)
      headers == HeaderSpan(allData[headerRowIndex + 1])
  IN IF file.corrupt
     THEN [error |-> ErrUnreadable, allData |-> <<>>, headerRowIndex |-> -1,
           headers |-> <<>>, rows |-> <<>>]
     ELSE IF Len(allData) < 2
     THEN [error |-> ErrInsufficient, allData |-> allData,
           headerRowIndex |-> -1, headers |-> <<>>, rows |-> <<>>]
     ELSE IF headerRowIndex = -1
     THEN [error |-> ErrNoHeader, allData |-> allData,
           headerRowIndex |-> -1, headers |-> <<>>, rows |-> <<>>]
     ELSE IF Len(headers) = 0
     THEN [error |-> ErrNoColumns, allData |-> allData,
           headerRowIndex |-> headerRowIndex, headers |-> <<>>,
           rows |-> <<>>]
     ELSE [error |-> "", allData |-> allData,
           headerRowIndex |-> headerRowIndex, headers |-> headers,
           rows |-> NormalizeRows(allData, headers, headerRowIndex)]

(***************************************************************************)
(* JavaScript Map (insertion-ordered, SameValueZero keys) as a sequence of  *)
(* entries.                                                                 *)
(***************************************************************************)
MapHas(map, k) == \E i \in DOMAIN map : map[i].key = k

MapSet(map, k, v) ==
  IF MapHas(map, k)
  THEN [i \in DOMAIN map |->
          IF map[i].key = k THEN [key |-> k, value |-> v] ELSE map[i]]
  ELSE Append(map, [key |-> k, value |-> v])

\* new Map(entries), entries given as parallel sequences
RECURSIVE NewMap(_, _)
NewMap(keys, values) ==
  IF keys = <<>> THEN <<>>
  ELSE LET n == Len(keys)
       IN MapSet(NewMap(SubSeq(keys, 1, n - 1), SubSeq(values, 1, n - 1)),
                 keys[n], values[n])

\* Array.from(map.values())
MapValues(map) == [i \in DOMAIN map |-> map[i].value]

\* existingHeaders.length !== newHeaders.length
\*   || !existingHeaders.every((h, i) => h === newHeaders[i])
HeadersDiffer(existingHeaders, newHeaders) ==
  \/ Len(existingHeaders) # Len(newHeaders)
  \/ ~(\A i \in DOMAIN existingHeaders : existingHeaders[i] = newHeaders[i])

(***************************************************************************)
(* First revision of App: merge keyed by the first column.                  *)
(***************************************************************************)
\* mutant: a row with a null key is merged like any other
MergeStepByKeyNoSkip(acc, newRow, idKey) ==
  LET newRowId == Get(newRow, idKey)
  IN [map |-> MapSet(acc.map, newRowId, newRow),
      updated |-> IF MapHas(acc.map, newRowId)
                  THEN Append(acc.updated, JsString(newRowId))
                  ELSE acc.updated,
      new |-> IF MapHas(acc.map, newRowId)
              THEN acc.new
              ELSE Append(acc.new, JsString(newRowId))]

\* one iteration of pendingFileData.rows.forEach
MergeStepByKey(acc, newRow, idKey) ==
  LET newRowId == Get(newRow, idKey)
  IN IF newRowId = Null \/ newRowId = Undef THEN acc
     ELSE [map |-> MapSet(acc.map, newRowId, newRow),
           updated |-> IF MapHas(acc.map, newRowId)
                       THEN Append(acc.updated, JsString(newRowId))
                       ELSE acc.updated,
           new |-> IF MapHas(acc.map, newRowId)
                   THEN acc.new
                   ELSE Append(acc.new, JsString(newRowId))]

RECURSIVE MergeLoopByKey(_, _, _)
MergeLoopByKey(acc, newRows, idKey) ==
  IF newRows = <<>> THEN acc
  ELSE MergeLoopByKey(MergeStepByKey(acc, Head(newRows), idKey),
                      Tail(newRows), idKey)

\* the "Merge logic" block: [rows, updated, new]
MergeByKey(existingHeaders, existingRows, newRows) ==
  LET idKey == existingHeaders[1]
      existingRowsMap ==
        NewMap([i \in DOMAIN existingRows |-> Get(existingRows[i], idKey)],
               existingRows)
      acc == MergeLoopByKey([map |-> existingRowsMap, updated |-> <<>>,
                             new |-> <<>>], newRows, idKey)
  IN [rows |-> MapValues(acc.map), updated |-> acc.updated, new |-> acc.new]

(***************************************************************************)
(* Storage helpers and the preview modal's derived data.                    *)
(***************************************************************************)
\* {...obj, [k]: v}
Put(obj, k, v) == [x \in DOMAIN obj \cup {k} |-> IF x = k THEN v ELSE obj[x]]

\* delete obj[k]
Remove(obj, k) == [x \in DOMAIN obj \ {k} |-> obj[x]]

RemoveAt(s, i) == SubSeq(s, 1, i - 1) \o SubSeq(s, i + 1, Len(s))

\* JSON.parse(JSON.stringify(sheet)): undefined-valued properties vanish
JsonSheet(sheet) ==
  [sheet EXCEPT !.data.rows =
     [i \in DOMAIN sheet.data.rows |->
        LET row == sheet.data.rows[i]
        IN [h \in {k \in DOMAIN row : row[k] # Undef} |-> row[h]]]]

ErrSave == "Erro ao salvar dados. O armazenamento local pode estar cheio."

\* saveSheet: localStorage after the call
SaveSheet(sheet) ==
  IF storageFull THEN store
  ELSE Put(store, sheet.metadata.key, JsonSheet(sheet))

\* deleteSheet: localStorage after the call
DeleteSheet(sheetKey) ==
  IF storageFull THEN store ELSE Remove(store, sheetKey)

\* combined.push(header) for every header not yet included
RECURSIVE PushMissing(_, _)
PushMissing(combined, more) ==
  IF more = <<>> THEN combined
  ELSE PushMissing(IF Head(more) \in Range(combined) THEN combined
                   ELSE Append(combined, Head(more)), Tail(more))

\* allHeaders: file headers, then missing stored headers, then custom ones
AllHeaders(data, existingHeaders, customColumns) ==
  PushMissing(PushMissing(data.headers, existingHeaders),
              [i \in DOMAIN customColumns |-> customColumns[i].name])

\* customColumns.forEach(col => row[col.name] = col.value)
RECURSIVE SetColumns(_, _)
SetColumns(row, cols) ==
  IF cols = <<>> THEN row
  ELSE SetColumns(Put(row, Head(cols).name, Str(Head(cols).value)),
                  Tail(cols))

\* previewData of the first revision's modal
PreviewDataRev1(data, existingHeaders, customColumns) ==
  [headers |-> AllHeaders(data, existingHeaders, customColumns),
   rows |-> [i \in DOMAIN data.rows |->
               SetColumns(data.rows[i], customColumns)]]

(***************************************************************************)
(* Derived values of a render.                                              *)
(***************************************************************************)
HasCurrentSheet == currentSheetKey # NoKey /\ currentSheetKey \in DOMAIN allSheets

\* currentSheet?.data.headers, [] for undefined
CurrentHeaders ==
  IF HasCurrentSheet THEN allSheets[currentSheetKey].data.headers ELSE <<>>

\* isNewSheet={!currentSheetKey && !isUpdatingCurrentSheet}
IsNewSheet == currentSheetKey = NoKey /\ ~isUpdatingCurrentSheet

PreviewShown == showDataPreview /\ previewData # NoData

ReportShown == mergeReport # NoReport

\* the pendingFileData effect has work to do: React runs it before the
\* next event is handled
EffectDue == pendingFileData # NoData /\ isUpdatingRef /\ currentSheetKey # NoKey

\* a click reaches the page: no native dialog, no modal overlay on top
CanClick == ~EffectDue /\ ~fileDialogOpen /\ ~PreviewShown /\ ~ReportShown

\* DataTable leaves the screen: its state is discarded and its cleanup
\* cancels the pending animation frame
CancelFrameNever(frames, handle) == frames

\* cancelAnimationFrame(scrollTimeoutRef.current): the frame requested last
\* leaves the queue
CancelFrame(frames, handle) ==
  IF handle = NoFrame THEN frames ELSE SubSeq(frames, 1, Len(frames) - 1)

UnmountTable ==
  /\ scrollTop' = 0
  /\ containerHeight' = 0
  /\ scrollTimeoutRef' = NoFrame
  /\ animationFrames' = CancelFrame(animationFrames, scrollTimeoutRef)

ResetView ==
  /\ filters' = EmptyMap
  /\ debouncedFilters' = EmptyMap
  /\ sortConfig' = NoSort

NewSheet(key, data) ==
  [metadata |-> [key |-> key], data |-> data, visibleColumns |-> data.headers]

ErrNotFound == "Planilha nao encontrada."
ErrMismatch == "Erro: Os cabecalhos nao correspondem!"
ErrNoType == "Por favor, forneca um nome para o tipo de planilha."
ErrExists == "Ja existe uma planilha"

(***************************************************************************)
(* Initial state: after the mount effect, with an empty localStorage.       *)
(***************************************************************************)
Init ==
  /\ allSheets = EmptyMap
  /\ store = EmptyMap
  /\ currentSheetKey = NoKey
  /\ showMainMenu = TRUE
  /\ filters = EmptyMap
  /\ debouncedFilters = EmptyMap
  /\ sortConfig = NoSort
  /\ mergeReport = NoReport
  /\ pendingFileData = NoData
  /\ isUpdatingCurrentSheet = FALSE
  /\ isUpdatingRef = FALSE
  /\ showDataPreview = FALSE
  /\ previewData = NoData
  /\ isLoadingFile = FALSE
  /\ fileDialogOpen = FALSE
  /\ readers = <<>>
  /\ storageFull \in BOOLEAN
  /\ alertMsg = ""
  /\ decode = NoDecode
  /\ merged = NoMerge
  /\ filterTimeoutRef = NoTimer
  /\ scrollTop = 0
  /\ containerHeight = 0
  /\ scrollTimeoutRef = NoFrame
  /\ animationFrames = <<>>

(***************************************************************************)
(* Handlers shared by both revisions.                                       *)
(***************************************************************************)
\* handleLoadNewFile (main menu); click() does nothing on a disabled input
HandleLoadNewFile ==
  /\ CanClick /\ showMainMenu
  /\ decode' = NoDecode
  /\ UNCHANGED viewVars
  /\ isUpdatingRef' = FALSE
  /\ isUpdatingCurrentSheet' = FALSE
  /\ pendingFileData' = NoData
  /\ fileDialogOpen' = ~isLoadingFile
  /\ alertMsg' = ""
  /\ UNCHANGED <<allSheets, store, currentSheetKey, showMainMenu, filters,
                 debouncedFilters, sortConfig, mergeReport, showDataPreview,
                 previewData, isLoadingFile, readers, storageFull, merged>>

\* handleUpdateCurrentSheet (data table)
HandleUpdateCurrentSheet ==
  /\ CanClick /\ ~showMainMenu /\ HasCurrentSheet
  /\ decode' = NoDecode
  /\ UNCHANGED viewVars
  /\ isUpdatingRef' = TRUE
  /\ isUpdatingCurrentSheet' = TRUE
  /\ pendingFileData' = NoData
  /\ fileDialogOpen' = ~isLoadingFile
  /\ alertMsg' = ""
  /\ UNCHANGED <<allSheets, store, currentSheetKey, showMainMenu, filters,
                 debouncedFilters, sortConfig, mergeReport, showDataPreview,
                 previewData, isLoadingFile, readers, storageFull, merged>>

\* the user dismisses the file picker without choosing: no change event
CancelFileDialog ==
  /\ fileDialogOpen
  /\ decode' = NoDecode
  /\ UNCHANGED viewVars
  /\ fileDialogOpen' = FALSE
  /\ alertMsg' = ""
  /\ UNCHANGED <<appVars, readers, storageFull, merged>>

\* handleBackToMainMenu
HandleBackToMainMenu ==
  /\ CanClick /\ ~showMainMenu /\ HasCurrentSheet
  /\ decode' = NoDecode
  /\ UnmountTable
  /\ UNCHANGED filterTimeoutRef
  /\ showMainMenu' = TRUE
  /\ currentSheetKey' = NoKey
  /\ alertMsg' = ""
  /\ UNCHANGED <<allSheets, store, filters, debouncedFilters, sortConfig,
                 mergeReport, pendingFileData, isUpdatingCurrentSheet,
                 isUpdatingRef, showDataPreview, previewData, isLoadingFile,
                 fileDialogOpen, readers, storageFull, merged>>

\* handleSelectSheetFromMenu: from the menu's list or the table's switcher
HandleSelectSheetFromMenu(sheetKey) ==
  /\ CanClick /\ (showMainMenu \/ HasCurrentSheet)
  /\ decode' = NoDecode
  /\ UNCHANGED viewVars
  /\ sheetKey \in DOMAIN allSheets
  /\ currentSheetKey' = sheetKey
  /\ showMainMenu' = FALSE
  /\ ResetView
  /\ alertMsg' = ""
  /\ UNCHANGED <<allSheets, store, mergeReport, pendingFileData,
                 isUpdatingCurrentSheet, isUpdatingRef, showDataPreview,
                 previewData, isLoadingFile, fileDialogOpen, readers,
                 storageFull, merged>>

\* handleClearCurrentSheet, the confirm() accepted
HandleClearCurrentSheet ==
  /\ CanClick /\ ~showMainMenu /\ HasCurrentSheet
  /\ decode' = NoDecode
  /\ UnmountTable
  /\ UNCHANGED filterTimeoutRef
  /\ store' = DeleteSheet(currentSheetKey)
  /\ allSheets' = Remove(allSheets, currentSheetKey)
  /\ currentSheetKey' = NoKey
  /\ showMainMenu' = TRUE
  /\ alertMsg' = ""
  /\ UNCHANGED <<filters, debouncedFilters, sortConfig, mergeReport,
                 pendingFileData, isUpdatingCurrentSheet, isUpdatingRef,
                 showDataPreview, previewData, isLoadingFile, fileDialogOpen,
                 readers, storageFull, merged>>

\* mutant: cancelling the preview always leaves the main menu
HandleCancelPreviewToTable ==
  /\ ~EffectDue /\ ~fileDialogOpen /\ PreviewShown
  /\ decode' = NoDecode
  /\ UNCHANGED viewVars
  /\ showDataPreview' = FALSE
  /\ previewData' = NoData
  /\ showMainMenu' = FALSE
  /\ alertMsg' = ""
  /\ UNCHANGED <<allSheets, store, currentSheetKey, filters, debouncedFilters,
                 sortConfig, mergeReport, pendingFileData,
                 isUpdatingCurrentSheet, isUpdatingRef, isLoadingFile,
                 fileDialogOpen, readers, storageFull, merged>>

\* handleCancelPreview
HandleCancelPreview ==
  /\ ~EffectDue /\ ~fileDialogOpen /\ PreviewShown
  /\ decode' = NoDecode
  /\ UNCHANGED viewVars
  /\ showDataPreview' = FALSE
  /\ previewData' = NoData
  /\ showMainMenu' = (currentSheetKey = NoKey)
  /\ alertMsg' = ""
  /\ UNCHANGED <<allSheets, store, currentSheetKey, filters, debouncedFilters,
                 sortConfig, mergeReport, pendingFileData,
                 isUpdatingCurrentSheet, isUpdatingRef, isLoadingFile,
                 fileDialogOpen, readers, storageFull, merged>>

\* MergeReportModal onClose
CloseMergeReport ==
  /\ ~EffectDue /\ ~fileDialogOpen /\ ReportShown /\ ~PreviewShown
  /\ decode' = NoDecode
  /\ UNCHANGED viewVars
  /\ mergeReport' = NoReport
  /\ merged' = NoMerge
  /\ alertMsg' = ""
  /\ UNCHANGED <<allSheets, store, currentSheetKey, showMainMenu, filters,
                 debouncedFilters, sortConfig, pendingFileData,
                 isUpdatingCurrentSheet, isUpdatingRef, showDataPreview,
                 previewData, isLoadingFile, fileDialogOpen, readers,
                 storageFull>>

(***************************************************************************)
(* First revision: file input, preview confirmation, merge effect.          *)
(***************************************************************************)
\* handleFileChange: the synchronous part, up to reader.readAsBinaryString
HandleFileChangeRev1(file) ==
  /\ ~EffectDue /\ fileDialogOpen
  /\ decode' = NoDecode
  /\ UNCHANGED viewVars
  /\ fileDialogOpen' = FALSE
  /\ isLoadingFile' = TRUE
  /\ readers' = Append(readers, [kind |-> "single", file |-> file])
  /\ alertMsg' = ""
  /\ UNCHANGED <<allSheets, store, currentSheetKey, showMainMenu, filters,
                 debouncedFilters, sortConfig, mergeReport, pendingFileData,
                 isUpdatingCurrentSheet, isUpdatingRef, showDataPreview,
                 previewData, storageFull, merged>>

\* reader.onload of handleFileChange
ReaderOnLoad(i) ==
  /\ ~EffectDue
  /\ i \in DOMAIN readers /\ readers[i].kind = "single"
  /\ LET r == ParseSheet(readers[i].file)
     IN /\ decode' = r
        /\ alertMsg' = r.error
        /\ IF r.error = ""
           THEN /\ previewData' = [headers |-> r.headers, rows |-> r.rows]
                /\ showDataPreview' = TRUE
           ELSE UNCHANGED <<previewData, showDataPreview>>
  /\ isLoadingFile' = FALSE
  /\ readers' = RemoveAt(readers, i)
  /\ UNCHANGED <<allSheets, store, currentSheetKey, showMainMenu, filters,
                 debouncedFilters, sortConfig, mergeReport, pendingFileData,
                 isUpdatingCurrentSheet, isUpdatingRef, fileDialogOpen,
                 storageFull, merged>>
  /\ UNCHANGED viewVars

\* reader.onerror of handleFileChange
ReaderOnError(i) ==
  /\ ~EffectDue
  /\ decode' = NoDecode
  /\ UNCHANGED viewVars
  /\ i \in DOMAIN readers /\ readers[i].kind = "single"
  /\ isLoadingFile' = FALSE
  /\ alertMsg' = ErrReader
  /\ readers' = RemoveAt(readers, i)
  /\ UNCHANGED <<allSheets, store, currentSheetKey, showMainMenu, filters,
                 debouncedFilters, sortConfig, mergeReport, pendingFileData,
                 isUpdatingCurrentSheet, isUpdatingRef, showDataPreview,
                 previewData, fileDialogOpen, storageFull, merged>>

\* mutant: the modal does not look the key up among the existing sheets
HandleConfirmNewRev1NoLookup(key) ==
  /\ ~EffectDue /\ ~fileDialogOpen /\ PreviewShown /\ IsNewSheet
  /\ decode' = NoDecode
  /\ UNCHANGED viewVars
  /\ IF key = NoKey
     THEN /\ alertMsg' = ErrNoType
          /\ UNCHANGED <<appVars, merged>>
     ELSE LET modifiedData == PreviewDataRev1(previewData, CurrentHeaders, <<>>)
              newSheet == NewSheet(key, modifiedData)
          IN /\ store' = SaveSheet(newSheet)
             /\ alertMsg' = IF storageFull THEN ErrSave ELSE ""
             /\ allSheets' = Put(allSheets, key, newSheet)
             /\ currentSheetKey' = key
             /\ showMainMenu' = FALSE
             /\ showDataPreview' = FALSE
             /\ previewData' = NoData
             /\ ResetView
             /\ UNCHANGED <<mergeReport, pendingFileData,
                            isUpdatingCurrentSheet, isUpdatingRef,
                            isLoadingFile, merged>>
  /\ UNCHANGED <<fileDialogOpen, readers, storageFull>>

\* DataPreviewModal.handleConfirm with isNewSheet, then handleConfirmPreview's
\* new-sheet branch; key = generateSheetKey(type, period), NoKey for a blank
\* type
HandleConfirmNewRev1(key) ==
  /\ ~EffectDue /\ ~fileDialogOpen /\ PreviewShown /\ IsNewSheet
  /\ decode' = NoDecode
  /\ UNCHANGED viewVars
  /\ IF key = NoKey \/ key \in DOMAIN allSheets
     THEN /\ alertMsg' = IF key = NoKey THEN ErrNoType ELSE ErrExists
          /\ UNCHANGED <<appVars, merged>>
     ELSE LET modifiedData == PreviewDataRev1(previewData, CurrentHeaders, <<>>)
              newSheet == NewSheet(key, modifiedData)
          IN /\ store' = SaveSheet(newSheet)
             /\ alertMsg' = IF storageFull THEN ErrSave ELSE ""
             /\ allSheets' = Put(allSheets, key, newSheet)
             /\ currentSheetKey' = key
             /\ showMainMenu' = FALSE
             /\ showDataPreview' = FALSE
             /\ previewData' = NoData
             /\ ResetView
             /\ UNCHANGED <<mergeReport, pendingFileData,
                            isUpdatingCurrentSheet, isUpdatingRef,
                            isLoadingFile, merged>>
  /\ UNCHANGED <<fileDialogOpen, readers, storageFull>>

\* DataPreviewModal.handleConfirm without isNewSheet, then
\* handleConfirmPreview's update branch
HandleConfirmUpdateRev1 ==
  /\ ~EffectDue /\ ~fileDialogOpen /\ PreviewShown /\ ~IsNewSheet
  /\ decode' = NoDecode
  /\ UNCHANGED viewVars
  /\ pendingFileData' = PreviewDataRev1(previewData, CurrentHeaders, <<>>)
  /\ showDataPreview' = FALSE
  /\ previewData' = NoData
  /\ alertMsg' = ""
  /\ UNCHANGED <<allSheets, store, currentSheetKey, showMainMenu, filters,
                 debouncedFilters, sortConfig, mergeReport,
                 isUpdatingCurrentSheet, isUpdatingRef, isLoadingFile,
                 fileDialogOpen, readers, storageFull, merged>>

\* the pendingFileData effect of the first revision
PendingFileEffectRev1 ==
  /\ EffectDue
  /\ decode' = NoDecode
  /\ UNCHANGED viewVars
  /\ IF currentSheetKey \notin DOMAIN allSheets
     THEN /\ alertMsg' = ErrNotFound
          /\ pendingFileData' = NoData
          /\ isUpdatingCurrentSheet' = FALSE
          /\ UNCHANGED <<allSheets, store, filters, debouncedFilters,
                         sortConfig, mergeReport, isUpdatingRef, merged>>
     ELSE LET existingSheet == allSheets[currentSheetKey]
              existingHeaders == existingSheet.data.headers
              newHeaders == pendingFileData.headers
          IN IF HeadersDiffer(existingHeaders, newHeaders)
             THEN /\ alertMsg' = ErrMismatch
                  /\ pendingFileData' = NoData
                  /\ isUpdatingCurrentSheet' = FALSE
                  /\ UNCHANGED <<allSheets, store, filters, debouncedFilters,
                                 sortConfig, mergeReport, isUpdatingRef,
                                 merged>>
             ELSE LET m == MergeByKey(existingHeaders,
                                      existingSheet.data.rows,
                                      pendingFileData.rows)
                      updatedSheet ==
                        [existingSheet EXCEPT
                           !.data = [headers |-> existingHeaders,
                                     rows |-> m.rows]]
                  IN /\ store' = SaveSheet(updatedSheet)
                     /\ alertMsg' = IF storageFull THEN ErrSave ELSE ""
                     /\ allSheets' = Put(allSheets, currentSheetKey,
                                         updatedSheet)
                     /\ pendingFileData' = NoData
                     /\ isUpdatingCurrentSheet' = FALSE
                     /\ isUpdatingRef' = FALSE
                     /\ ResetView
                     /\ mergeReport' = [updated |-> m.updated, new |-> m.new]
                     /\ merged' = [via |-> "effect",
                                   key |-> currentSheetKey,
                                   existing |-> existingSheet.data,
                                   incomingHeaders |-> <<newHeaders>>,
                                   incomingRows |-> pendingFileData.rows]
  /\ UNCHANGED <<currentSheetKey, showMainMenu, showDataPreview, previewData,
                 isLoadingFile, fileDialogOpen, readers, storageFull>>

(***************************************************************************)
(* Second revision of App: merge keyed by the content of the whole row.     *)
(***************************************************************************)
ReportIdLength == 50

\* values.join('|')
RECURSIVE JoinBar(_)
JoinBar(values) ==
  IF values = <<>> THEN <<>>
  ELSE IF Len(values) = 1 THEN values[1]
  ELSE values[1] \o <<"|">> \o JoinBar(Tail(values))

\* createRowHash of the pendingFileData effect
CreateRowHash(row, headers) ==
  JoinBar([i \in DOMAIN headers |->
             LET val == Get(row, headers[i])
             IN IF val = Null \/ val = Undef THEN <<>> ELSE JsString(val)])

\* !value: null, undefined, 0, false and '' are falsy
Falsy(c) ==
  \/ c = Null \/ c = Undef
  \/ c.t = "number" /\ c.n = 0
  \/ c.t = "boolean" /\ ~c.b
  \/ c.t = "string" /\ c.s = <<>>

\* baseHeaders.map(h => String(row[h] || '')).join('|')
LooseRowHash(row, baseHeaders) ==
  JoinBar([i \in DOMAIN baseHeaders |->
             LET val == Get(row, baseHeaders[i])
             IN IF Falsy(val) THEN <<>> ELSE JsString(val)])

\* hash.substring(0, 50)
Substring(s, n) == SubSeq(s, 1, IF Len(s) < n THEN Len(s) ELSE n)

\* { ...a, ...b }
Spread(a, b) ==
  [k \in DOMAIN a \cup DOMAIN b |-> IF k \in DOMAIN b THEN b[k] ELSE a[k]]

\* one iteration of pendingFileData.rows.forEach in the effect
MergeStepByHash(acc, newRow, headers) ==
  LET newRowHash == CreateRowHash(newRow, headers)
  IN [map |-> MapSet(acc.map, newRowHash, newRow),
      updated |-> IF MapHas(acc.map, newRowHash)
                  THEN Append(acc.updated,
                              Substring(newRowHash, ReportIdLength))
                  ELSE acc.updated,
      new |-> IF MapHas(acc.map, newRowHash)
              THEN acc.new
              ELSE Append(acc.new, Substring(newRowHash, ReportIdLength))]

RECURSIVE MergeLoopByHash(_, _, _)
MergeLoopByHash(acc, newRows, headers) ==
  IF newRows = <<>> THEN acc
  ELSE MergeLoopByHash(MergeStepByHash(acc, Head(newRows), headers),
                       Tail(newRows), headers)

\* the "Merge logic" block of the second revision's effect
MergeByHash(existingHeaders, existingRows, newRows) ==
  LET existingRowsMap ==
        NewMap([i \in DOMAIN existingRows |->
                  CreateRowHash(existingRows[i], existingHeaders)],
               existingRows)
      acc == MergeLoopByHash([map |-> existingRowsMap, updated |-> <<>>,
                              new |-> <<>>], newRows, existingHeaders)
  IN [rows |-> MapValues(acc.map), updated |-> acc.updated, new |-> acc.new]

\* one iteration of allNewRows.forEach in handleMultipleFiles
MergeStepByFind(acc, newRow, baseHeaders) ==
  LET newRowHash == LooseRowHash(newRow, baseHeaders)
      hits == {i \in DOMAIN acc.rows :
                 LooseRowHash(acc.rows[i], baseHeaders) = newRowHash}
  IN IF hits # {}
     THEN LET existingIndex == CHOOSE i \in hits : \A j \in hits : i <= j
          IN [rows |-> [acc.rows EXCEPT ![existingIndex] = Spread(@, newRow)],
              updated |-> Append(acc.updated, newRowHash),
              new |-> acc.new]
     ELSE [rows |-> Append(acc.rows, newRow),
           updated |-> acc.updated,
           new |-> Append(acc.new, newRowHash)]

RECURSIVE MergeLoopByFind(_, _, _)
MergeLoopByFind(acc, allNewRows, baseHeaders) ==
  IF allNewRows = <<>> THEN acc
  ELSE MergeLoopByFind(MergeStepByFind(acc, Head(allNewRows), baseHeaders),
                       Tail(allNewRows), baseHeaders)

\* the merge branch of handleMultipleFiles
MergeByFind(baseHeaders, existingRows, allNewRows) ==
  MergeLoopByFind([rows |-> existingRows, updated |-> <<>>, new |-> <<>>],
                  allNewRows, baseHeaders)

\* processedFiles.forEach(({ data }) => allNewRows.push(...data.rows))
RECURSIVE AllNewRows(_)
AllNewRows(processedFiles) ==
  IF processedFiles = <<>> THEN <<>>
  ELSE Head(processedFiles).rows \o AllNewRows(Tail(processedFiles))

\* missingColumns.forEach(colName => row[colName] = values[colName] || '')
RECURSIVE FillMissing(_, _, _)
FillMissing(row, missingColumns, missingColumnValues) ==
  IF missingColumns = <<>> THEN row
  ELSE LET colName == Head(missingColumns)
           value == IF colName \in DOMAIN missingColumnValues
                    THEN missingColumnValues[colName] ELSE <<>>
       IN FillMissing(Put(row, colName, Str(value)), Tail(missingColumns),
                      missingColumnValues)

\* previewData of the second revision's modal
PreviewDataRev2(data, existingHeaders, isNewSheet, customColumns, missingValues) ==
  LET NotInFile(h) == h \notin Range(data.headers)
      missingColumns == SelectSeq(existingHeaders, NotInFile)
      isMerging == Len(existingHeaders) > 0 /\ ~isNewSheet
  IN [headers |-> AllHeaders(data, existingHeaders, customColumns),
      rows |-> [i \in DOMAIN data.rows |->
                  LET row == SetColumns(data.rows[i], customColumns)
                  IN IF isMerging
                     THEN FillMissing(row, missingColumns, missingValues)
                     ELSE row]]

ErrNotExcel == "Por favor, selecione um arquivo Excel valido"
ErrNoIdentifier == "Por favor, forneca um identificador para a planilha."

(***************************************************************************)
(* Second revision: file input, drag and drop, handleMultipleFiles,         *)
(* preview confirmation, merge effect.                                      *)
(***************************************************************************)
\* files.filter(file => file.name.match(/\.(xls|xlsx|xlsm)$/i))
ExcelFiles(files) == LET IsExcel(f) == f.excel IN SelectSeq(files, IsExcel)

\* handleMultipleFiles(excelFiles, true) up to its first await; the callback
\* keeps the currentSheet and currentSheetKey of the render that created it
MultiImport(excelFiles) ==
  [kind |-> "multi", files |-> excelFiles, processedFiles |-> <<>>,
   isMerging |-> TRUE, currentSheet |-> allSheets[currentSheetKey],
   currentSheetKey |-> currentSheetKey]

\* the single-file path of handleFileChange up to readAsBinaryString
SingleImport(excelFiles) == [kind |-> "single", file |-> excelFiles[1]]

\* handleFileChange of the second revision: the synchronous part
HandleFileChangeRev2(files) ==
  /\ ~EffectDue /\ fileDialogOpen
  /\ files # <<>>
  /\ decode' = NoDecode
  /\ UNCHANGED viewVars
  /\ fileDialogOpen' = FALSE
  /\ IF ExcelFiles(files) = <<>>
     THEN /\ alertMsg' = ErrNotExcel
          /\ UNCHANGED <<isLoadingFile, readers>>
     ELSE /\ alertMsg' = ""
          /\ isLoadingFile' = TRUE
          /\ readers' = Append(readers,
                               IF HasCurrentSheet
                               THEN MultiImport(ExcelFiles(files))
                               ELSE SingleImport(ExcelFiles(files)))
  /\ UNCHANGED <<allSheets, store, currentSheetKey, showMainMenu, filters,
                 debouncedFilters, sortConfig, mergeReport, pendingFileData,
                 isUpdatingCurrentSheet, isUpdatingRef, showDataPreview,
                 previewData, storageFull, merged>>

\* handleDrop: the root element takes drops whatever is on screen and
\* whether or not a file is loading
HandleDrop(files) ==
  /\ ~EffectDue /\ ~fileDialogOpen
  /\ files # <<>>
  /\ decode' = NoDecode
  /\ UNCHANGED viewVars
  /\ IF ExcelFiles(files) = <<>>
     THEN /\ alertMsg' = ErrNotExcel
          /\ UNCHANGED <<isLoadingFile, readers>>
     ELSE /\ alertMsg' = ""
          /\ isLoadingFile' = TRUE
          /\ readers' = Append(readers,
                               IF HasCurrentSheet
                               THEN MultiImport(ExcelFiles(files))
                               ELSE SingleImport(ExcelFiles(files)))
  /\ UNCHANGED <<allSheets, store, currentSheetKey, showMainMenu, filters,
                 debouncedFilters, sortConfig, mergeReport, pendingFileData,
                 isUpdatingCurrentSheet, isUpdatingRef, showDataPreview,
                 previewData, fileDialogOpen, storageFull, merged>>

\* handleMultipleFiles: the FileReader of the next file completes (loaded
\* says whether onload or onerror fires); after the last file the rest of
\* the function runs in the same step
MultipleFilesStep(i, loaded) ==
  /\ ~EffectDue
  /\ i \in DOMAIN readers /\ readers[i].kind = "multi"
  /\ decode' = NoDecode
  /\ UNCHANGED viewVars
  /\ LET op == readers[i]
         r == ParseSheet(Head(op.files))
         error == IF ~loaded THEN ErrReader ELSE r.error
         processedFiles ==
           IF error = "" THEN Append(op.processedFiles,
                                     [headers |-> r.headers, rows |-> r.rows])
           ELSE op.processedFiles
     IN IF Len(op.files) > 1
        THEN /\ readers' = [readers EXCEPT ![i].files = Tail(op.files),
                                           ![i].processedFiles = processedFiles]
             /\ alertMsg' = error
             /\ UNCHANGED <<allSheets, store, mergeReport, previewData,
                            showDataPreview, isLoadingFile, merged>>
        ELSE /\ readers' = RemoveAt(readers, i)
             /\ isLoadingFile' = FALSE
             /\ IF processedFiles = <<>>
                THEN /\ alertMsg' = error
                     /\ UNCHANGED <<allSheets, store, mergeReport,
                                    previewData, showDataPreview, merged>>
                ELSE IF op.isMerging
                THEN LET baseHeaders == op.currentSheet.data.headers
                         allNewRows == AllNewRows(processedFiles)
                         m == MergeByFind(baseHeaders,
                                          op.currentSheet.data.rows,
                                          allNewRows)
                         updatedSheet ==
                           [op.currentSheet EXCEPT !.data.rows = m.rows]
                     IN /\ store' = SaveSheet(updatedSheet)
                        /\ alertMsg' = IF storageFull THEN ErrSave ELSE error
                        /\ allSheets' = Put(allSheets, op.currentSheetKey,
                                            updatedSheet)
                        /\ mergeReport' = [updated |-> m.updated,
                                           new |-> m.new]
                        /\ merged' =
                             [via |-> "multi",
                              key |-> op.currentSheetKey,
                              existing |-> op.currentSheet.data,
                              incomingHeaders |->
                                [k \in DOMAIN processedFiles |->
                                   processedFiles[k].headers],
                              incomingRows |-> allNewRows]
                        /\ UNCHANGED <<previewData, showDataPreview>>
                ELSE /\ previewData' = processedFiles[1]
                     /\ showDataPreview' = TRUE
                     /\ alertMsg' = error
                     /\ UNCHANGED <<allSheets, store, mergeReport, merged>>
  /\ UNCHANGED <<currentSheetKey, showMainMenu, filters, debouncedFilters,
                 sortConfig, pendingFileData, isUpdatingCurrentSheet,
                 isUpdatingRef, fileDialogOpen, storageFull>>

\* DataPreviewModal.handleConfirm with isNewSheet, then handleConfirmPreview's
\* new-sheet branch; sheetIdentifier is the trimmed identifier
HandleConfirmNewRev2(sheetIdentifier) ==
  /\ ~EffectDue /\ ~fileDialogOpen /\ PreviewShown /\ IsNewSheet
  /\ decode' = NoDecode
  /\ UNCHANGED viewVars
  /\ IF sheetIdentifier = NoKey \/ sheetIdentifier \in DOMAIN allSheets
     THEN /\ alertMsg' = IF sheetIdentifier = NoKey THEN ErrNoIdentifier
                         ELSE ErrExists
          /\ UNCHANGED <<appVars, merged>>
     ELSE LET finalData == PreviewDataRev2(previewData, CurrentHeaders,
                                           IsNewSheet, <<>>, EmptyMap)
              newSheet == NewSheet(sheetIdentifier, finalData)
          IN /\ store' = SaveSheet(newSheet)
             /\ alertMsg' = IF storageFull THEN ErrSave ELSE ""
             /\ allSheets' = Put(allSheets, sheetIdentifier, newSheet)
             /\ currentSheetKey' = sheetIdentifier
             /\ showMainMenu' = FALSE
             /\ showDataPreview' = FALSE
             /\ previewData' = NoData
             /\ ResetView
             /\ UNCHANGED <<mergeReport, pendingFileData,
                            isUpdatingCurrentSheet, isUpdatingRef,
                            isLoadingFile, merged>>
  /\ UNCHANGED <<fileDialogOpen, readers, storageFull>>

\* DataPreviewModal.handleConfirm without isNewSheet, then
\* handleConfirmPreview's update branch
HandleConfirmUpdateRev2 ==
  /\ ~EffectDue /\ ~fileDialogOpen /\ PreviewShown /\ ~IsNewSheet
  /\ decode' = NoDecode
  /\ UNCHANGED viewVars
  /\ pendingFileData' = PreviewDataRev2(previewData, CurrentHeaders,
                                        IsNewSheet, <<>>, EmptyMap)
  /\ showDataPreview' = FALSE
  /\ previewData' = NoData
  /\ alertMsg' = ""
  /\ UNCHANGED <<allSheets, store, currentSheetKey, showMainMenu, filters,
                 debouncedFilters, sortConfig, mergeReport,
                 isUpdatingCurrentSheet, isUpdatingRef, isLoadingFile,
                 fileDialogOpen, readers, storageFull, merged>>

\* the pendingFileData effect of the second revision
PendingFileEffectRev2 ==
  /\ EffectDue
  /\ decode' = NoDecode
  /\ UNCHANGED viewVars
  /\ IF currentSheetKey \notin DOMAIN allSheets
     THEN /\ alertMsg' = ErrNotFound
          /\ pendingFileData' = NoData
          /\ isUpdatingCurrentSheet' = FALSE
          /\ UNCHANGED <<allSheets, store, filters, debouncedFilters,
                         sortConfig, mergeReport, isUpdatingRef, merged>>
     ELSE LET existingSheet == allSheets[currentSheetKey]
              existingHeaders == existingSheet.data.headers
              newHeaders == pendingFileData.headers
          IN IF HeadersDiffer(existingHeaders, newHeaders)
             THEN /\ alertMsg' = ErrMismatch
                  /\ pendingFileData' = NoData
                  /\ isUpdatingCurrentSheet' = FALSE
                  /\ UNCHANGED <<allSheets, store, filters, debouncedFilters,
                                 sortConfig, mergeReport, isUpdatingRef,
                                 merged>>
             ELSE LET m == MergeByHash(existingHeaders,
                                       existingSheet.data.rows,
                                       pendingFileData.rows)
                      updatedSheet ==
                        [existingSheet EXCEPT
                           !.data = [headers |-> existingHeaders,
                                     rows |-> m.rows]]
                  IN /\ store' = SaveSheet(updatedSheet)
                     /\ alertMsg' = IF storageFull THEN ErrSave ELSE ""
                     /\ allSheets' = Put(allSheets, currentSheetKey,
                                         updatedSheet)
                     /\ pendingFileData' = NoData
                     /\ isUpdatingCurrentSheet' = FALSE
                     /\ isUpdatingRef' = FALSE
                     /\ ResetView
                     /\ mergeReport' = [updated |-> m.updated, new |-> m.new]
                     /\ merged' = [via |-> "effect",
                                   key |-> currentSheetKey,
                                   existing |-> existingSheet.data,
                                   incomingHeaders |-> <<newHeaders>>,
                                   incomingRows |-> pendingFileData.rows]
  /\ UNCHANGED <<currentSheetKey, showMainMenu, showDataPreview, previewData,
                 isLoadingFile, fileDialogOpen, readers, storageFull>>

(***************************************************************************)
(* Ingestion specification: the file picker of the main menu, fed with      *)
(* every raw matrix of at most MaxRows rows over IngestRows.                *)
(***************************************************************************)
CellA == Str(<<"A">>)
CellB == Str(<<"B">>)
CellC == Str(<<"C">>)
CellBlank == Str(<<" ">>)

IngestRows ==
  { <<CellA, CellB, CellC, Null, CellC>>,  \* four strings around a gap
    <<CellBlank, CellA, CellB, CellC>>,    \* three strings after a blank
    <<CellA, Num(1), CellA>>,              \* three cells, one not a string
    <<CellA, CellB>>,                      \* two strings, a short row
    <<Null, Null, Num(2)>> }                \* a value only in the third cell

IngestFiles ==
  {[excel |-> TRUE, corrupt |-> FALSE, allData |-> m] :
     m \in UNION {[1..n -> IngestRows] : n \in 0..MaxRows}}
  \cup {[excel |-> TRUE, corrupt |-> TRUE, allData |-> <<>>]}

NextIngest ==
  \/ HandleLoadNewFile
  \/ CancelFileDialog
  \/ fileDialogOpen /\ \E file \in IngestFiles : HandleFileChangeRev1(file)
  \/ \E i \in DOMAIN readers : ReaderOnLoad(i)
  \/ \E i \in DOMAIN readers : ReaderOnError(i)
  \/ HandleCancelPreview

InitIngest == Init /\ ~storageFull

SpecIngest == InitIngest /\ [][NextIngest]_vars

(***************************************************************************)
(* Ingestion claims.  The predicates below restate the spec's wording       *)
(* without using the detector's own operators.                              *)
(***************************************************************************)
\* a cell that is neither null/absent nor blank after trimming
NonEmptyCell(cell) ==
  /\ cell.t \notin {"null", "undefined"}
  /\ \E k \in DOMAIN JsString(cell) : JsString(cell)[k] \notin WhiteSpace

NonEmptyCount(row) == Cardinality({k \in DOMAIN row : NonEmptyCell(row[k])})

\* at least 3 non-empty cells, every non-empty cell a string
AllStringRow(row) ==
  /\ NonEmptyCount(row) >= 3
  /\ \A k \in DOMAIN row : NonEmptyCell(row[k]) => row[k].t = "string"

\* an onload ran on a decoded matrix of at least 2 rows
Decoded == decode # NoDecode /\ decode.error # ErrUnreadable
             /\ Len(decode.allData) >= 2

\* C7: whenever row index 1 has at least 3 non-empty cells, all of them
\* strings, the detector selects index 1, whatever the other rows hold.
C7_Row1Priority ==
  (Decoded /\ AllStringRow(decode.allData[2])) => decode.headerRowIndex = 1

\* C7 witness: row 1 was selected although rows 0 and 2 qualify as well.
C7_Witness ==
  /\ Decoded /\ Len(decode.allData) >= 3
  /\ AllStringRow(decode.allData[1])
  /\ AllStringRow(decode.allData[2])
  /\ AllStringRow(decode.allData[3])
  /\ decode.headerRowIndex = 1

\* the scan of the third rule, as the spec words it
ScanIndices(allData) ==
  {i \in 0..4 : i < Len(allData) /\ NonEmptyCount(allData[i + 1]) >= 2}

Row1Fails(allData) == ~AllStringRow(allData[2])
Row2Qualifies(allData) == Len(allData) >= 3 /\ AllStringRow(allData[3])

FallbackClause ==
  (Decoded /\ Row1Fails(decode.allData) /\ ~Row2Qualifies(decode.allData)) =>
     IF ScanIndices(decode.allData) = {}
     THEN /\ decode.headerRowIndex = -1
          /\ alertMsg = ErrNoHeader
          /\ previewData = NoData /\ ~showDataPreview
     ELSE /\ decode.headerRowIndex \in ScanIndices(decode.allData)
          /\ \A j \in ScanIndices(decode.allData) : decode.headerRowIndex <= j

\* C8 as stated: when row 1 fails, row 2 is selected if and only if it has
\* at least 3 non-empty cells that are all strings; when neither qualifies
\* the first row of 0..min(4, rows-1) with 2 non-empty cells is selected, and
\* with no such row detection fails with HeaderNotFound and no table.
C8_Original ==
  /\ (Decoded /\ Row1Fails(decode.allData)) =>
       (decode.headerRowIndex = 2 <=> Row2Qualifies(decode.allData))
  /\ FallbackClause

\* C8 amended: when row 1 fails and row 2 has at least 3 non-empty cells
\* that are all strings, row 2 is selected (the third rule may select row 2
\* as well); the fallback and failure clauses are as stated.
C8_Fallbacks ==
  /\ (Decoded /\ Row1Fails(decode.allData) /\ Row2Qualifies(decode.allData))
       => decode.headerRowIndex = 2
  /\ FallbackClause

\* C8 witness: six rows, none of rows 0..4 has two non-empty cells, row 5
\* does, and detection failed with HeaderNotFound.
C8_Witness ==
  /\ Decoded /\ Len(decode.allData) = 6
  /\ ScanIndices(decode.allData) = {}
  /\ NonEmptyCount(decode.allData[6]) >= 2
  /\ alertMsg = ErrNoHeader


\* length of the longest prefix of non-empty cells
PrefixLength(row) ==
  CHOOSE n \in 0..Len(row) :
    /\ \A k \in 1..n : NonEmptyCell(row[k])
    /\ n < Len(row) => ~NonEmptyCell(row[n + 1])

\* C9: the header span is the longest prefix of the accepted header row
\* whose cells are all non-null and non-empty after trimming (as strings);
\* an empty span fails with NoValidColumns and produces no table.
C9_HeaderSpan ==
  (Decoded /\ decode.headerRowIndex >= 0) =>
     LET row == decode.allData[decode.headerRowIndex + 1]
         n == PrefixLength(row)
     IN IF n = 0
        THEN /\ alertMsg = ErrNoColumns
             /\ previewData = NoData /\ ~showDataPreview
        ELSE /\ alertMsg = ""
             /\ showDataPreview
             /\ previewData.headers = [k \in 1..n |-> JsString(row[k])]

\* C9 witness: row 2 was accepted, it has non-empty cells after its first
\* blank, and the span stops at the blank.
C9_Witness ==
  /\ Decoded /\ decode.headerRowIndex = 2
  /\ LET row == decode.allData[3]
     IN /\ PrefixLength(row) = 3
        /\ NonEmptyCount(row) = 4
  /\ showDataPreview /\ Len(previewData.headers) = 3

\* C9 witness of the failure: the accepted row starts with a blank cell.
C9_WitnessNoColumns ==
  /\ Decoded /\ decode.headerRowIndex >= 0
  /\ PrefixLength(decode.allData[decode.headerRowIndex + 1]) = 0
  /\ alertMsg = ErrNoColumns

\* the rows the spec's normalizer yields for a header span of n cells
ExpectedRows(allData, headerRowIndex, headers) ==
  LET n == Len(headers)
      after == SubSeq(allData, headerRowIndex + 2, Len(allData))
      InSpan(r) == \E k \in 1..n : k <= Len(r) /\ r[k] \notin {Null, Undef}
  IN SelectSeq(after, InSpan)

\* header[i] -> cell[i], a missing trailing cell as null
MapsCells(out, headers, r) ==
  /\ DOMAIN out = Range(headers)
  /\ \A k \in DOMAIN headers :
       out[headers[k]] = IF k <= Len(r) /\ r[k] # Undef THEN r[k] ELSE Null

\* C10: the output rows are, in order, exactly the rows after the header
\* row with a non-null value inside the span, each mapped header[i] ->
\* cell[i] with missing trailing cells as null; the step never fails.
C10_Normalizer ==
  (Decoded /\ decode.error = "") =>
     LET expected == ExpectedRows(decode.allData, decode.headerRowIndex,
                                  previewData.headers)
     IN /\ Len(previewData.rows) = Len(expected)
        /\ \A k \in DOMAIN expected :
             MapsCells(previewData.rows[k], previewData.headers, expected[k])

(***************************************************************************)
(* First-revision specification: one sheet key, files of two columns with  *)
(* the header in the first row and at most MaxFileRows data rows.           *)
(***************************************************************************)
HeaderId == Str(<<"I">>)
HeaderName == Str(<<"N">>)
NameA == Str(<<"a">>)
NameB == Str(<<"b">>)

SheetKeys == {"k"}

DataRowsRev1 ==
  { <<Num(1), NameA>>, <<Num(1), NameB>>, <<Num(2), NameA>>,
    <<Null, NameA>>, <<Null, Null>> }

FileOf(headerRow, dataRows) ==
  [excel |-> TRUE, corrupt |-> FALSE, allData |-> <<headerRow>> \o dataRows]

FilesRev1 ==
  {FileOf(<<HeaderId, HeaderName>>, m) :
     m \in UNION {[1..n -> DataRowsRev1] : n \in 1..MaxFileRows}}
  \cup {FileOf(<<HeaderName, HeaderId>>, <<<<NameA, Num(1)>>>>),
        FileOf(<<HeaderId, HeaderName>>, <<>>),
        [excel |-> TRUE, corrupt |-> TRUE, allData |-> <<>>]}

NextRev1 ==
  \/ HandleLoadNewFile
  \/ HandleUpdateCurrentSheet
  \/ CancelFileDialog
  \/ fileDialogOpen /\ \E file \in FilesRev1 : HandleFileChangeRev1(file)
  \/ \E i \in DOMAIN readers : ReaderOnLoad(i)
  \/ \E i \in DOMAIN readers : ReaderOnError(i)
  \/ \E key \in SheetKeys \cup {NoKey} : HandleConfirmNewRev1(key)
  \/ HandleConfirmUpdateRev1
  \/ PendingFileEffectRev1
  \/ HandleCancelPreview
  \/ CloseMergeReport
  \/ HandleBackToMainMenu
  \/ \E sheetKey \in SheetKeys : HandleSelectSheetFromMenu(sheetKey)
  \/ HandleClearCurrentSheet

SpecRev1 == Init /\ [][NextRev1]_vars

(***************************************************************************)
(* Reconciliation claims, first-column-key policy.  While the merge report *)
(* shows, merged holds the inputs of the merge and the current sheet and    *)
(* mergeReport hold its outputs.                                            *)
(***************************************************************************)
MergeShownByKey ==
  /\ merged # NoMerge /\ merged.via = "effect"
  /\ ReportShown /\ HasCurrentSheet

\* the rows of the current sheet
SheetRows == allSheets[currentSheetKey].data.rows

IndexSeq(n) == [i \in 1..n |-> i]

\* the incoming rows that carry a first-column value
KeyedRows(incoming, idKey) ==
  LET Keyed(r) == Get(r, idKey) \notin {Null, Undef}
  IN SelectSeq(incoming, Keyed)

\* C2 as stated: the merged rows are the existing rows in order, each
\* replaced by the last incoming row with the same first-column value,
\* followed by the incoming rows whose key is not in the existing table;
\* report.updated / report.new list, in incoming order, the keys that were /
\* were not present when their row was processed.
C2_FirstColumnMerge ==
  MergeShownByKey =>
    LET idKey == merged.existing.headers[1]
        E == merged.existing.rows
        I == KeyedRows(merged.incomingRows, idKey)
        Key(r) == Get(r, idKey)
        Replaced(e) ==
          LET js == {j \in DOMAIN I : Key(I[j]) = Key(e)}
          IN IF js = {} THEN e
             ELSE I[CHOOSE j \in js : \A k \in js : k <= j]
        Fresh(r) == \A i \in DOMAIN E : Key(E[i]) # Key(r)
        Present(j) ==
          \/ \E i \in DOMAIN E : Key(E[i]) = Key(I[j])
          \/ \E k \in 1..(j - 1) : Key(I[k]) = Key(I[j])
        Absent(j) == ~Present(j)
        KeyString(js) == [n \in DOMAIN js |-> JsString(Key(I[js[n]]))]
    IN /\ SheetRows = [i \in DOMAIN E |-> Replaced(E[i])] \o SelectSeq(I, Fresh)
       /\ mergeReport.updated =
            KeyString(SelectSeq(IndexSeq(Len(I)), Present))
       /\ mergeReport.new = KeyString(SelectSeq(IndexSeq(Len(I)), Absent))

\* C3 as stated: after a successful merge every row of the previously
\* stored table is still in the merged table unless an incoming row with the
\* same identity replaced it, and an empty incoming table leaves the stored
\* rows unchanged.
C3_NoDataLoss ==
  (MergeShownByKey /\ alertMsg = "") =>
    LET idKey == merged.existing.headers[1]
        E == merged.existing.rows
        I == KeyedRows(merged.incomingRows, idKey)
    IN /\ \A i \in DOMAIN E :
            \/ \E j \in DOMAIN I : Get(I[j], idKey) = Get(E[i], idKey)
            \/ E[i] \in Range(SheetRows)
       /\ merged.incomingRows = <<>> => SheetRows = E

\* C6: an incoming row whose first-column value is null or absent takes no
\* part in the merge: the merged rows and the report are those of the merge
\* without such rows, the report has one entry per keyed incoming row, and
\* every merged row is an existing row or a keyed incoming row.
C6_NullKeyDropped ==
  MergeShownByKey =>
    LET idKey == merged.existing.headers[1]
        keyed == KeyedRows(merged.incomingRows, idKey)
        without == MergeByKey(merged.existing.headers, merged.existing.rows,
                              keyed)
    IN /\ SheetRows = without.rows
       /\ mergeReport = [updated |-> without.updated, new |-> without.new]
       /\ Len(mergeReport.updated) + Len(mergeReport.new) = Len(keyed)
       /\ \A i \in DOMAIN SheetRows :
            \/ SheetRows[i] \in Range(merged.existing.rows)
            \/ SheetRows[i] \in Range(keyed)

\* C6 witness: a merge whose incoming rows hold a null key and a non-null
\* key, into a table without null keys; no merged row has a null key.
C6_Witness ==
  /\ MergeShownByKey
  /\ LET idKey == merged.existing.headers[1]
         I == merged.incomingRows
     IN /\ \E j \in DOMAIN I : Get(I[j], idKey) = Null
        /\ \E j \in DOMAIN I : Get(I[j], idKey) # Null
        /\ \A i \in DOMAIN merged.existing.rows :
             Get(merged.existing.rows[i], idKey) # Null
        /\ \A i \in DOMAIN SheetRows : Get(SheetRows[i], idKey) # Null
        /\ Len(mergeReport.updated) + Len(mergeReport.new) = 1

(***************************************************************************)
(* Second-revision specification: one sheet identifier, a few two-column    *)
(* files, selections and drops of one or two files.                         *)
(***************************************************************************)
FileTwice == FileOf(<<HeaderId, HeaderName>>,
                    <<<<Num(0), NameB>>, <<Num(0), NameB>>>>)
FileNull == FileOf(<<HeaderId, HeaderName>>, <<<<Null, NameB>>>>)
FileSwapped == FileOf(<<HeaderName, HeaderId>>, <<<<NameA, Num(2)>>>>)
FileText == [excel |-> FALSE, corrupt |-> FALSE, allData |-> <<>>]

SelectionsRev2 ==
  { <<FileTwice>>, <<FileNull>>, <<FileSwapped>>, <<FileText>>,
    <<FileNull, FileSwapped>> }

NextRev2 ==
  \/ HandleLoadNewFile
  \/ HandleUpdateCurrentSheet
  \/ CancelFileDialog
  \/ fileDialogOpen /\ \E files \in SelectionsRev2 : HandleFileChangeRev2(files)
  \/ Len(readers) < MaxInFlight /\ \E files \in SelectionsRev2 : HandleDrop(files)
  \/ \E i \in DOMAIN readers : ReaderOnLoad(i)
  \/ \E i \in DOMAIN readers : ReaderOnError(i)
  \/ \E i \in DOMAIN readers, loaded \in BOOLEAN : MultipleFilesStep(i, loaded)
  \/ \E sheetIdentifier \in SheetKeys \cup {NoKey} :
       HandleConfirmNewRev2(sheetIdentifier)
  \/ HandleConfirmUpdateRev2
  \/ PendingFileEffectRev2
  \/ HandleCancelPreview
  \/ CloseMergeReport
  \/ HandleBackToMainMenu
  \/ \E sheetKey \in SheetKeys : HandleSelectSheetFromMenu(sheetKey)
  \/ HandleClearCurrentSheet

SpecRev2 == Init /\ [][NextRev2]_vars

(***************************************************************************)
(* Reconciliation claims, content-hash policy and schema check.  While a    *)
(* merge report shows, merged holds the inputs of the merge that produced   *)
(* it and the sheet merged.key holds its result.                            *)
(***************************************************************************)
\* a merge was committed and its save succeeded
MergeCommitted ==
  merged # NoMerge /\ merged.key \in DOMAIN allSheets /\ ~storageFull

MergedRows == allSheets[merged.key].data.rows

\* C1 as stated: a merge whose incoming header sequence differs from the
\* stored one fails and changes nothing, so every merge that was committed
\* and reported had, for each incoming file, the stored header sequence.
C1_SchemaMismatch ==
  MergeCommitted =>
    \A k \in DOMAIN merged.incomingHeaders :
      merged.incomingHeaders[k] = merged.existing.headers

\* C4 as stated: merging a table into itself reports no new row, reports
\* every row as updated exactly once and keeps the number of rows.
C4_Idempotence ==
  (/\ MergeCommitted
   /\ merged.incomingRows = merged.existing.rows
   /\ \A k \in DOMAIN merged.incomingHeaders :
        merged.incomingHeaders[k] = merged.existing.headers) =>
    /\ mergeReport.new = <<>>
    /\ Len(mergeReport.updated) = Len(merged.existing.rows)
    /\ Len(MergedRows) = Len(merged.existing.rows)

\* C5 as stated: an incoming row that differs in at least one cell from
\* every row already in the table (stored, or merged before it) is
\* classified new and appended.
C5_DifferingRowIsNew ==
  MergeCommitted =>
    LET H == merged.existing.headers
        E == merged.existing.rows
        I == merged.incomingRows
        Val(r, h) == IF Get(r, h) = Undef THEN Null ELSE Get(r, h)
        Differs(r, e) == \E k \in DOMAIN H : Val(r, H[k]) # Val(e, H[k])
        Fresh(j) == /\ \A i \in DOMAIN E : Differs(I[j], E[i])
                    /\ \A k \in 1..(j - 1) : Differs(I[j], I[k])
    IN /\ Cardinality({j \in DOMAIN I : Fresh(j)}) <= Len(mergeReport.new)
       /\ \A j \in DOMAIN I : Fresh(j) => I[j] \in Range(MergedRows)

(***************************************************************************)
(* Malformed input.                                                         *)
(***************************************************************************)
\* the step ran reader.onload on an undecodable file or on fewer than two
\* rows, or ran reader.onerror
MalformedDecode ==
  \/ /\ decode' # NoDecode
     /\ decode'.error = ErrUnreadable \/ Len(decode'.allData) < 2
  \/ Len(readers') < Len(readers) /\ decode' = NoDecode

\* C11: a decode that fails or yields fewer than 2 rows is rejected with an
\* error, produces no preview, changes no stored or in-memory dataset and
\* clears the loading flag.
C11_MalformedRejected ==
  [][MalformedDecode =>
       /\ alertMsg' \in {ErrUnreadable, ErrInsufficient, ErrReader}
       /\ previewData' = previewData /\ showDataPreview' = showDataPreview
       /\ store' = store /\ allSheets' = allSheets
       /\ pendingFileData' = pendingFileData
       /\ ~isLoadingFile']_vars

\* C11 witness: with a sheet stored, a one-row file was rejected and the file
\* input is enabled again.
C11_Witness ==
  /\ decode # NoDecode /\ Len(decode.allData) = 1
  /\ decode.error = ErrInsufficient /\ alertMsg = ErrInsufficient
  /\ DOMAIN store # {} /\ ~isLoadingFile /\ previewData = NoData

(***************************************************************************)
(* Query pipeline: processedRows of App (filter, then sort).  The two      *)
(* revisions of App carry the same text.                                   *)
(***************************************************************************)
UpperCase ==
  <<"A", "B", "C", "D", "E", "F", "G", "H", "I", "J", "K", "L", "M",
    "N", "O", "P", "Q", "R", "S", "T", "U", "V", "W", "X", "Y", "Z">>
LowerCase ==
  <<"a", "b", "c", "d", "e", "f", "g", "h", "i", "j", "k", "l", "m",
    "n", "o", "p", "q", "r", "s", "t", "u", "v", "w", "x", "y", "z">>
\* the characters of the model in the order of their UTF-16 code units
CodeUnits ==
  <<"\t", "\n", " ", "-">> \o
  <<"0", "1", "2", "3", "4", "5", "6", "7", "8", "9", ";">> \o
  UpperCase \o <<"_">> \o LowerCase \o <<"|">>
CharCode(c) == CHOOSE i \in DOMAIN CodeUnits : CodeUnits[i] = c

\* String.prototype.toLowerCase
ToLowerCase(s) ==
  [i \in DOMAIN s |->
     IF \E k \in DOMAIN UpperCase : UpperCase[k] = s[i]
       THEN LowerCase[CHOOSE k \in DOMAIN UpperCase : UpperCase[k] = s[i]]
       ELSE s[i]]

\* String.prototype.split with a one-character separator
RECURSIVE Split(_, _)
Split(s, sep) ==
  IF \A i \in DOMAIN s : s[i] # sep
    THEN <<s>>
    ELSE LET i == CHOOSE j \in DOMAIN s :
                    s[j] = sep /\ \A k \in 1..(j - 1) : s[k] # sep
         IN <<SubSeq(s, 1, i - 1)>> \o Split(SubSeq(s, i + 1, Len(s)), sep)

\* String.prototype.includes
Includes(s, term) ==
  \E i \in 0..(Len(s) - Len(term)) : SubSeq(s, i + 1, i + Len(term)) = term

\* the < of two strings: by code units, a proper prefix first
RECURSIVE StrLess(_, _)
StrLess(a, b) ==
  IF b = <<>> THEN FALSE
  ELSE IF a = <<>> THEN TRUE
  ELSE IF a[1] # b[1] THEN CharCode(a[1]) < CharCode(b[1])
  ELSE StrLess(Tail(a), Tail(b))

\* value == null
IsNullish(c) == c = Null \/ c = Undef

\* String(value).split(';').map(trim, lower).filter(term => term)
SearchTerms(value) ==
  LET parts == Split(value, ";")
      mapped == [i \in DOMAIN parts |-> ToLowerCase(Trim(parts[i]))]
  IN SelectSeq(mapped, LAMBDA term : term # <<>>)

ActiveFiltersAll(applied) == DOMAIN applied

\* Object.entries(debouncedFilters).filter(([, value]) => value)
ActiveFilters(applied) == {key \in DOMAIN applied : applied[key] # <<>>}

PassesFilterEveryTerm(row, key, value) ==
  LET cellValue == Get(row, key) IN
  IF IsNullish(cellValue) THEN FALSE
  ELSE LET cellValueStr == ToLowerCase(JsString(cellValue))
           searchTerms == SearchTerms(value)
       IN IF Len(searchTerms) = 0 THEN TRUE
          ELSE \A t \in DOMAIN searchTerms : Includes(cellValueStr, searchTerms[t])

\* mutant: the terms are looked at before the null test
PassesFilterTermsFirst(row, key, value) ==
  LET cellValue == Get(row, key)
      searchTerms == SearchTerms(value)
  IN IF Len(searchTerms) = 0 THEN TRUE
     ELSE IF IsNullish(cellValue) THEN FALSE
     ELSE \E t \in DOMAIN searchTerms :
            Includes(ToLowerCase(JsString(cellValue)), searchTerms[t])

PassesFilter(row, key, value) ==
  LET cellValue == Get(row, key) IN
  IF IsNullish(cellValue) THEN FALSE
  ELSE LET cellValueStr == ToLowerCase(JsString(cellValue))
           searchTerms == SearchTerms(value)
       IN IF Len(searchTerms) = 0 THEN TRUE
          ELSE \E t \in DOMAIN searchTerms : Includes(cellValueStr, searchTerms[t])

FilterRows(rows, applied) ==
  IF ActiveFilters(applied) # {}
    THEN SelectSeq(rows, LAMBDA row :
           \A key \in ActiveFilters(applied) : PassesFilter(row, key, applied[key]))
    ELSE rows

CompareNullFirst(a, b, config) ==
  LET aValue == Get(a, config.key)
      bValue == Get(b, config.key)
      asc == config.direction = "ascending"
  IN IF IsNullish(aValue) THEN (IF asc THEN 1 ELSE -1)
     ELSE IF IsNullish(bValue) THEN (IF asc THEN -1 ELSE 1)
     ELSE IF aValue.t = "number" /\ bValue.t = "number"
       THEN IF asc THEN aValue.n - bValue.n ELSE bValue.n - aValue.n
     ELSE LET valA == ToLowerCase(JsString(aValue))
              valB == ToLowerCase(JsString(bValue))
          IN IF StrLess(valA, valB) THEN (IF asc THEN -1 ELSE 1)
             ELSE IF StrLess(valB, valA) THEN (IF asc THEN 1 ELSE -1)
             ELSE 0

\* the comparator handed to Array.prototype.sort
Compare(a, b, config) ==
  LET aValue == Get(a, config.key)
      bValue == Get(b, config.key)
      asc == config.direction = "ascending"
  IN IF IsNullish(aValue) THEN 1
     ELSE IF IsNullish(bValue) THEN -1
     ELSE IF aValue.t = "number" /\ bValue.t = "number"
       THEN IF asc THEN aValue.n - bValue.n ELSE bValue.n - aValue.n
     ELSE LET valA == ToLowerCase(JsString(aValue))
              valB == ToLowerCase(JsString(bValue))
          IN IF StrLess(valA, valB) THEN (IF asc THEN -1 ELSE 1)
             ELSE IF StrLess(valB, valA) THEN (IF asc THEN 1 ELSE -1)
             ELSE 0

IndexPermutations(n) ==
  {p \in [1..n -> 1..n] : \A i, j \in 1..n : p[i] = p[j] => i = j}

\* Array.prototype.sort: stable, and where the comparator contradicts
\* itself on a pair (it answers 1 both ways for two nullish values) the
\* engine may leave that pair in either order
SortOrders(rows, config) ==
  {p \in IndexPermutations(Len(rows)) :
     \A i, j \in 1..Len(rows) : i < j =>
        LET ab == Compare(rows[p[i]], rows[p[j]], config)
            ba == Compare(rows[p[j]], rows[p[i]], config)
        IN \/ ab < 0
           \/ ab = 0 /\ ba = 0 /\ p[i] < p[j]
           \/ ab > 0 /\ ba > 0}

SortOutcomes(rows, config) ==
  LET orders == IF SortOrders(rows, config) # {}
                  THEN SortOrders(rows, config)
                  ELSE IndexPermutations(Len(rows))
  IN {[i \in 1..Len(rows) |-> rows[p[i]]] : p \in orders}

\* every value processedRows can take in the current state
ProcessedRows ==
  IF ~HasCurrentSheet THEN {<<>>}
  ELSE LET filteredRows ==
             FilterRows(allSheets[currentSheetKey].data.rows, debouncedFilters)
       IN IF sortConfig # NoSort
            THEN SortOutcomes(filteredRows, sortConfig)
            ELSE {filteredRows}

DebounceMs == 300

\* handleFilterChange: one timer for all columns, it carries the last
\* keystroke only
HandleFilterChange(key, value) ==
  /\ CanClick
  /\ ~showMainMenu /\ HasCurrentSheet
  /\ key \in Range(CurrentHeaders)
  \* onChange of the input, whose value is filters[header] || ''
  /\ value # (IF key \in DOMAIN filters THEN filters[key] ELSE <<>>)
  /\ filters' = Put(filters, key, value)
  /\ filterTimeoutRef' = [key |-> key, value |-> value, delay |-> DebounceMs]
  /\ alertMsg' = ""
  /\ decode' = NoDecode
  /\ UNCHANGED <<allSheets, store, currentSheetKey, showMainMenu,
                 debouncedFilters, sortConfig, mergeReport, pendingFileData,
                 isUpdatingCurrentSheet, isUpdatingRef, showDataPreview,
                 previewData, isLoadingFile, fileDialogOpen, readers,
                 storageFull, merged, tableVars>>

\* the callback of the timer, DebounceMs after the last keystroke
FilterTimeout ==
  /\ ~EffectDue
  /\ filterTimeoutRef # NoTimer
  /\ debouncedFilters' =
       Put(debouncedFilters, filterTimeoutRef.key, filterTimeoutRef.value)
  /\ filterTimeoutRef' = NoTimer
  /\ alertMsg' = ""
  /\ decode' = NoDecode
  /\ UNCHANGED <<allSheets, store, currentSheetKey, showMainMenu, filters,
                 sortConfig, mergeReport, pendingFileData,
                 isUpdatingCurrentSheet, isUpdatingRef, showDataPreview,
                 previewData, isLoadingFile, fileDialogOpen, readers,
                 storageFull, merged, tableVars>>

\* handleSort: a click on a column header of the table
HandleSort(key) ==
  /\ CanClick
  /\ ~showMainMenu /\ HasCurrentSheet
  /\ key \in Range(CurrentHeaders)
  /\ LET isAsc == /\ sortConfig # NoSort
                  /\ sortConfig.key = key
                  /\ sortConfig.direction = "ascending"
     IN sortConfig' = [key |-> key,
                       direction |-> IF isAsc THEN "descending" ELSE "ascending"]
  /\ alertMsg' = ""
  /\ decode' = NoDecode
  /\ UNCHANGED <<allSheets, store, currentSheetKey, showMainMenu, filters,
                 debouncedFilters, mergeReport, pendingFileData,
                 isUpdatingCurrentSheet, isUpdatingRef, showDataPreview,
                 previewData, isLoadingFile, fileDialogOpen, readers,
                 storageFull, merged, viewVars>>

\* the state the mount effect leaves when localStorage holds a table and
\* sessionStorage names it
Restored(key, data) ==
  /\ allSheets = Put(EmptyMap, key, NewSheet(key, data))
  /\ store = allSheets
  /\ currentSheetKey = key
  /\ showMainMenu = FALSE
  /\ filters = EmptyMap
  /\ debouncedFilters = EmptyMap
  /\ sortConfig = NoSort
  /\ mergeReport = NoReport
  /\ pendingFileData = NoData
  /\ isUpdatingCurrentSheet = FALSE
  /\ isUpdatingRef = FALSE
  /\ showDataPreview = FALSE
  /\ previewData = NoData
  /\ isLoadingFile = FALSE
  /\ fileDialogOpen = FALSE
  /\ readers = <<>>
  /\ storageFull \in BOOLEAN
  /\ alertMsg = ""
  /\ decode = NoDecode
  /\ merged = NoMerge
  /\ filterTimeoutRef = NoTimer
  /\ scrollTop = 0
  /\ containerHeight = 0
  /\ scrollTimeoutRef = NoFrame
  /\ animationFrames = <<>>

(***************************************************************************)
(* Filter specification: a stored table is restored at mount and the user  *)
(* types into the filter inputs of its two columns.                        *)
(***************************************************************************)
MaxQueryRows == 3

ColDept == <<"D">>
ColValue == <<"V">>
QueryRow(dept, value) == (ColDept :> dept) @@ (ColValue :> value)
QueryRows ==
  {QueryRow(Str(<<"M", "a", "t", "h", " ", "A">>), Num(5)),
   QueryRow(Str(<<"b", "i", "o">>), Null),
   QueryRow(Null, Num(1)),
   QueryRow(Str(<<"B", "i", "o">>), Num(10))}
QueryTables ==
  {[headers |-> <<ColDept, ColValue>>, rows |-> rows] :
     rows \in UNION {[1..n -> QueryRows] : n \in 0..MaxQueryRows}}

FilterBioMath == <<"b", "i", "o", ";", "m", "a", "t", "h">>
FilterBlank == <<" ", ";">>
FilterOne == <<"1">>
FilterInputs(key) ==
  IF key = ColDept THEN {FilterBioMath, FilterBlank, <<>>} ELSE {FilterOne, <<>>}

InitQuery == \E data \in QueryTables : Restored("k", data)

NextFilter ==
  \/ \E key \in {ColDept, ColValue} :
       \E value \in FilterInputs(key) : HandleFilterChange(key, value)
  \/ FilterTimeout

SpecFilter == InitQuery /\ [][NextFilter]_vars

(***************************************************************************)
(* Filter claims.  The filter step of processedRows is deterministic: it   *)
(* is FilterRows of the current table under the applied filter state.      *)
(***************************************************************************)
TableRows == allSheets[currentSheetKey].data.rows
FilterOutput == FilterRows(TableRows, debouncedFilters)

\* the terms of a filter string: its pieces between semicolons, trimmed
\* and lowercased, the empty ones left out
TermsOf(f) ==
  LET cuts == {0, Len(f) + 1} \cup {k \in DOMAIN f : f[k] = ";"}
      adjacent == {ab \in cuts \X cuts :
                     /\ ab[1] < ab[2]
                     /\ \A k \in cuts : ~(ab[1] < k /\ k < ab[2])}
  IN {ToLowerCase(Trim(SubSeq(f, ab[1] + 1, ab[2] - 1))) : ab \in adjacent}
       \ {<<>>}

Contains(s, t) == \E i \in 1..Len(s), j \in 1..Len(s) : SubSeq(s, i, j) = t

ContainsSomeTerm(row, key) ==
  /\ ~IsNullish(Get(row, key))
  /\ \E t \in TermsOf(debouncedFilters[key]) :
       Contains(ToLowerCase(JsString(Get(row, key))), t)

FilteredColumns == {key \in DOMAIN debouncedFilters : debouncedFilters[key] # <<>>}

\* C12 as stated: a row is in the filtered output iff in every column with
\* a non-empty filter string its lowercased value contains at least one of
\* the filter's terms; the output keeps the relative order of the input.
C12_Original ==
  HasCurrentSheet =>
    FilterOutput =
      SelectSeq(TableRows,
                LAMBDA row : \A key \in FilteredColumns : ContainsSomeTerm(row, key))

\* C12, amended: a row is in the filtered output iff in every column with
\* a non-empty filter string its value is not null and, when the filter
\* string has at least one term, its lowercased value contains at least one
\* of the terms (a non-empty filter string without terms, such as " ;",
\* only asks for a non-null value); the output keeps the relative order of
\* the input.
C12_FilterLaw ==
  HasCurrentSheet =>
    FilterOutput =
      SelectSeq(TableRows,
                LAMBDA row : \A key \in FilteredColumns :
                   /\ ~IsNullish(Get(row, key))
                   /\ \/ TermsOf(debouncedFilters[key]) = {}
                      \/ ContainsSomeTerm(row, key))

\* both columns carry an applied filter, one of them with two terms; a row
\* passes, and a row that passes the first column alone is left out
C12_Witness ==
  /\ DOMAIN debouncedFilters = {ColDept, ColValue}
  /\ debouncedFilters[ColDept] = FilterBioMath
  /\ debouncedFilters[ColValue] = FilterOne
  /\ FilterOutput # <<>>
  /\ \E i \in DOMAIN TableRows :
       /\ ContainsSomeTerm(TableRows[i], ColDept)
       /\ \A j \in DOMAIN FilterOutput : FilterOutput[j] # TableRows[i]

\* C13: a row whose value is null in a column that has a non-empty filter
\* string is never in the filtered output, and when no column has a
\* non-empty filter string the filtered output is the full row sequence of
\* the current table.
C13_NullAndNoFilter ==
  HasCurrentSheet =>
    /\ \A i \in DOMAIN FilterOutput : \A key \in FilteredColumns :
         Get(FilterOutput[i], key) # Null
    /\ FilteredColumns = {} => FilterOutput = TableRows

\* a filter string without terms is applied to the first column: the row
\* with a null there is left out, another row stays
C13_Witness ==
  /\ ColDept \in DOMAIN debouncedFilters
  /\ debouncedFilters[ColDept] = FilterBlank
  /\ \E i \in DOMAIN TableRows : TableRows[i][ColDept] = Null
  /\ FilterOutput # <<>>

\* a filter was applied and then cleared: every row is back
C13_WitnessCleared ==
  /\ DOMAIN debouncedFilters = {ColDept}
  /\ debouncedFilters[ColDept] = <<>>
  /\ \E i \in DOMAIN TableRows : TableRows[i][ColDept] = Null
  /\ FilterOutput = TableRows

(***************************************************************************)
(* Sort specification: the restored table is sorted by header clicks while *)
(* a filter may be applied to its first column.                            *)
(***************************************************************************)
FilterM == <<"m">>

NextSort ==
  \/ \E key \in {ColDept, ColValue} : HandleSort(key)
  \/ HandleFilterChange(ColDept, FilterM)
  \/ FilterTimeout

SpecSort == InitQuery /\ [][NextSort]_vars

\* p and q hold the same rows, each as often as the other
SameRows(p, q) ==
  /\ Len(p) = Len(q)
  /\ \A row \in Range(p) \cup Range(q) :
       Cardinality({i \in DOMAIN p : p[i] = row}) =
       Cardinality({i \in DOMAIN q : q[i] = row})

\* C14: with a sort state active, in every value the sorted output can
\* take each row with a non-null sort-key value precedes each row with a
\* null one, in ascending and in descending direction, and the output is a
\* permutation of the filtered rows.
C14_NullLast ==
  (HasCurrentSheet /\ sortConfig # NoSort) =>
    \A out \in ProcessedRows :
      /\ SameRows(out, FilterOutput)
      /\ \A i, j \in DOMAIN out :
           (out[i][sortConfig.key] = Null /\ out[j][sortConfig.key] # Null)
             => j < i

\* the example of the specification, in both directions: values 5, null, 1
\* give 1, 5, null ascending and 5, 1, null descending
C14_Witness ==
  /\ sortConfig # NoSort /\ sortConfig.key = ColValue
  /\ sortConfig.direction = "descending"
  /\ Len(TableRows) = 3
  /\ <<TableRows[1][ColValue], TableRows[2][ColValue], TableRows[3][ColValue]>>
       = <<Num(5), Null, Num(1)>>
  /\ \A out \in ProcessedRows :
       <<out[1][ColValue], out[2][ColValue], out[3][ColValue]>>
         = <<Num(5), Num(1), Null>>

(***************************************************************************)
(* Sort state, second revision: a stored table is restored and sorted, and *)
(* files are dropped on it.                                                *)
(***************************************************************************)
StoredTwice ==
  [headers |-> ParseSheet(FileTwice).headers, rows |-> ParseSheet(FileTwice).rows]

InitSortRev2 == Restored("k", StoredTwice)

NextSortRev2 ==
  \/ \E key \in Range(StoredTwice.headers) : HandleSort(key)
  \/ Len(readers) < MaxInFlight /\
       \E files \in {<<FileNull>>, <<FileSwapped>>} : HandleDrop(files)
  \/ \E i \in DOMAIN readers, loaded \in BOOLEAN : MultipleFilesStep(i, loaded)
  \/ CloseMergeReport
  \/ HandleBackToMainMenu
  \/ \E sheetKey \in SheetKeys : HandleSelectSheetFromMenu(sheetKey)

SpecSortRev2 == InitSortRev2 /\ [][NextSortRev2]_vars

\* a step that changes the sort state to an active one: a header click
SortClicked == sortConfig' # sortConfig /\ sortConfig' # NoSort

\* a step that shows another dataset, stores a new one or commits a merge
DatasetSwitched == currentSheetKey' # currentSheetKey /\ currentSheetKey' # NoKey
DatasetCreated == DOMAIN allSheets' # DOMAIN allSheets /\ DOMAIN allSheets \subseteq DOMAIN allSheets'
MergeDone == merged' # merged /\ merged' # NoMerge

\* C15: the sort state is none or one key with a direction; a click on the
\* active key flips its direction, a click on another key makes that key
\* active and ascending; a step that switches the dataset, creates one or
\* merges leaves the sort state at none.
C15_SortState ==
  [][/\ SortClicked =>
          IF sortConfig # NoSort /\ sortConfig'.key = sortConfig.key
            THEN sortConfig'.direction # sortConfig.direction
            ELSE sortConfig'.direction = "ascending"
     /\ (DatasetSwitched \/ DatasetCreated \/ MergeDone) => sortConfig' = NoSort]_vars

(***************************************************************************)
(* DataTable: scroll handling and the virtualization calculations.  The    *)
(* height set by the mount effect arrives, like every later one, through   *)
(* ContainerResize.                                                        *)
(***************************************************************************)
ROW_HEIGHT == 37
OVERSCAN_COUNT == 3

MathMax(a, b) == IF a >= b THEN a ELSE b
MathMin(a, b) == IF a <= b THEN a ELSE b
\* Math.floor(a / b) and Math.ceil(a / b) for b > 0
FloorDiv(a, b) == a \div b
CeilDiv(a, b) == -((-a) \div b)

\* Array.prototype.slice(start, end)
Slice(s, start, end) ==
  LET from == IF start < 0 THEN MathMax(Len(s) + start, 0) ELSE MathMin(start, Len(s))
      to == IF end < 0 THEN MathMax(Len(s) + end, 0) ELSE MathMin(end, Len(s))
  IN SubSeq(s, from + 1, to)

WindowOverscanOnce(processedRows) ==
  LET totalRows == Len(processedRows)
      startIndex == MathMax(0, FloorDiv(scrollTop, ROW_HEIGHT) - OVERSCAN_COUNT)
      visibleItemCount == CeilDiv(containerHeight, ROW_HEIGHT)
      endIndex == MathMin(totalRows - 1,
                          startIndex + visibleItemCount + OVERSCAN_COUNT)
  IN [startIndex |-> startIndex, visibleItemCount |-> visibleItemCount,
      endIndex |-> endIndex,
      visibleRows |-> Slice(processedRows, startIndex, endIndex + 1),
      paddingTop |-> startIndex * ROW_HEIGHT,
      paddingBottom |-> (totalRows - (endIndex + 1)) * ROW_HEIGHT]

\* the virtualization calculations of one render
Window(processedRows) ==
  LET totalRows == Len(processedRows)
      startIndex == MathMax(0, FloorDiv(scrollTop, ROW_HEIGHT) - OVERSCAN_COUNT)
      visibleItemCount == CeilDiv(containerHeight, ROW_HEIGHT)
      endIndex == MathMin(totalRows - 1,
                          startIndex + visibleItemCount + OVERSCAN_COUNT * 2)
  IN [startIndex |-> startIndex, visibleItemCount |-> visibleItemCount,
      endIndex |-> endIndex,
      visibleRows |-> Slice(processedRows, startIndex, endIndex + 1),
      paddingTop |-> startIndex * ROW_HEIGHT,
      paddingBottom |-> (totalRows - (endIndex + 1)) * ROW_HEIGHT]

TableMounted == ~showMainMenu /\ HasCurrentSheet

\* handleScroll: the pending frame is cancelled and a new one requested
HandleScroll(newScrollTop) ==
  /\ ~EffectDue
  /\ TableMounted
  /\ animationFrames' =
       Append(CancelFrame(animationFrames, scrollTimeoutRef), newScrollTop)
  /\ scrollTimeoutRef' = [newScrollTop |-> newScrollTop]
  /\ alertMsg' = ""
  /\ decode' = NoDecode
  /\ UNCHANGED <<appVars, fileDialogOpen, readers, storageFull, merged,
                 filterTimeoutRef,
                 scrollTop, containerHeight>>

\* the animation frame callback.  The ref keeps the handle of a frame that
\* ran, which cancelAnimationFrame ignores: the model writes NoFrame for it
ScrollFrame ==
  /\ ~EffectDue
  /\ animationFrames # <<>>
  /\ scrollTop' = Head(animationFrames)
  /\ animationFrames' = Tail(animationFrames)
  /\ scrollTimeoutRef' = IF Tail(animationFrames) = <<>> THEN NoFrame
                          ELSE scrollTimeoutRef
  /\ alertMsg' = ""
  /\ decode' = NoDecode
  /\ UNCHANGED <<appVars, fileDialogOpen, readers, storageFull, merged,
                 filterTimeoutRef,
                 containerHeight>>

\* the ResizeObserver callback (and the measurement of the mount effect)
ContainerResize(clientHeight) ==
  /\ ~EffectDue
  /\ TableMounted
  /\ containerHeight' = clientHeight
  /\ alertMsg' = ""
  /\ decode' = NoDecode
  /\ UNCHANGED <<appVars, fileDialogOpen, readers, storageFull, merged,
                 filterTimeoutRef,
                 scrollTop, scrollTimeoutRef, animationFrames>>

(***************************************************************************)
(* Viewport specification: a stored table of up to MaxTableRows rows is    *)
(* restored and the user scrolls and resizes.                              *)
(***************************************************************************)
MaxTableRows == 20

NumberedTable(n) ==
  [headers |-> <<ColDept, ColValue>>,
   rows |-> [i \in 1..n |-> QueryRow(Str(<<"a">>), Num(i))]]

ScrollOffsets == {0, 36, 37, 111, 148, 185, 370, 740}
ClientHeights == {0, 1, 37, 100, 370}

InitViewport == \E n \in 0..MaxTableRows : Restored("k", NumberedTable(n))

NextViewport ==
  \/ \E newScrollTop \in ScrollOffsets : HandleScroll(newScrollTop)
  \/ ScrollFrame
  \/ \E clientHeight \in ClientHeights : ContainerResize(clientHeight)

SpecViewport == InitViewport /\ [][NextViewport]_vars

\* the whole part of s / 37 and the count of rows of height 37 that cover c
RowsAbove(s) == CHOOSE q \in 0..s : q * 37 <= s /\ s < (q + 1) * 37
RowsCovering(c) == CHOOSE v \in 0..c : (v - 1) * 37 < c /\ c <= v * 37

\* C16: with h = 37 and o = 3, for the scroll offset s, the container
\* height c and the row count n of the render: startIndex is
\* max(0, floor(s/h) - o), visibleCount is ceil(c/h), endIndex is
\* min(n - 1, startIndex + visibleCount + 2o), leadingPad is startIndex*h,
\* trailingPad is max(0, (n - 1 - endIndex)*h), the materialized rows are
\* exactly the rows with index in [startIndex, endIndex]; for s = 0 and
\* c = 370 these are 0, 10 and min(n - 1, 16).
C16_ViewportWindow ==
  TableMounted =>
    \A rows \in ProcessedRows :
      LET w == Window(rows)
          n == Len(rows)
          start == MathMax(0, RowsAbove(scrollTop) - 3)
          count == RowsCovering(containerHeight)
          end == MathMin(n - 1, start + count + 6)
          shown == {i \in 0..(n - 1) : start <= i /\ i <= end}
      IN /\ w.startIndex = start
         /\ w.visibleItemCount = count
         /\ w.endIndex = end
         /\ w.paddingTop = start * 37
         /\ w.paddingBottom = MathMax(0, (n - 1 - end) * 37)
         /\ Len(w.visibleRows) = Cardinality(shown)
         /\ \A k \in DOMAIN w.visibleRows : w.visibleRows[k] = rows[start + k]
         /\ (scrollTop = 0 /\ containerHeight = 370) =>
              /\ w.startIndex = 0 /\ w.visibleItemCount = 10
              /\ w.endIndex = MathMin(n - 1, 16)

\* scrolled by five rows in a container one row high: rows 2..9 of more
\* than ten are materialized, with padding on both sides
C16_Witness ==
  /\ TableMounted
  /\ scrollTop = 185 /\ containerHeight = 37 /\ Len(TableRows) > 10
  /\ \A rows \in ProcessedRows :
       /\ Window(rows).startIndex = 2 /\ Window(rows).endIndex = 9
       /\ Len(Window(rows).visibleRows) = 8
       /\ Window(rows).paddingTop = 74 /\ Window(rows).paddingBottom > 0

(***************************************************************************)
(* Debounce.  The timer runs out DebounceMs after the keystroke that set   *)
(* it, so "DebounceMs without a keystroke have passed" is the state in     *)
(* which no timer is pending.                                              *)
(***************************************************************************)
TimerFired == filterTimeoutRef # NoTimer /\ filterTimeoutRef' = NoTimer

\* the filter string of a column, empty when the column has none
FilterString(state, key) == IF key \in DOMAIN state THEN state[key] ELSE <<>>
SameFilterStrings(applied, visible) ==
  \A key \in DOMAIN applied \cup DOMAIN visible :
     FilterString(applied, key) = FilterString(visible, key)

\* C17: once the quiet period after the keystrokes is over, the applied
\* filter state equals the visible one on every column; the applied filter
\* state changes only in the step where the timer fires.
C17_Debounce ==
  [][/\ filterTimeoutRef' = NoTimer => SameFilterStrings(debouncedFilters', filters')
     /\ ~SameFilterStrings(debouncedFilters', debouncedFilters) => TimerFired]_vars

(***************************************************************************)
(* Drop specification, second revision: files are dropped on a restored    *)
(* table, up to MaxDrops imports at a time.                                *)
(***************************************************************************)
MaxDrops == 2

NextDrop ==
  \/ Len(readers) < MaxDrops /\
       \E files \in {<<FileNull>>, <<FileSwapped>>} : HandleDrop(files)
  \/ \E i \in DOMAIN readers, loaded \in BOOLEAN : MultipleFilesStep(i, loaded)
  \/ CloseMergeReport

SpecDrop == InitSortRev2 /\ [][NextDrop]_vars

\* the dataset an import in flight will write to (none: a new dataset)
TargetOf(op) == IF op.kind = "multi" THEN op.currentSheetKey ELSE NoKey

\* C18: no two imports are in flight for the same target dataset, and no
\* import starts while one is loading.
C18_Serialized ==
  /\ \A i, j \in DOMAIN readers :
       (i # j /\ TargetOf(readers[i]) # NoKey)
         => TargetOf(readers[i]) # TargetOf(readers[j])
  /\ ~isLoadingFile => readers = <<>>
  /\ Len(readers) <= 1

(***************************************************************************)
(* Persistence failures.  storageFull makes every localStorage.setItem     *)
(* throw; a step writes to the store when it changes the sheets in memory  *)
(* or commits a merge.                                                     *)
(***************************************************************************)
WriteAttempted == allSheets' # allSheets \/ MergeDone

\* C19: a step whose write to the store fails reports the failure and does
\* not look successful: the sheets in memory stay as they were and no
\* merge report is shown.
C19_FailureReported ==
  [][(storageFull /\ WriteAttempted) =>
       /\ alertMsg' # ""
       /\ allSheets' = allSheets
       /\ mergeReport' = NoReport]_vars

(***************************************************************************)
(* Table invariant.  The sheet handed to saveSheet is the one the same     *)
(* step puts into allSheets.                                               *)
(***************************************************************************)
\* a stored table with a third column, which the files of FilesRev1 lack
HeaderExtra == Str(<<"X">>)
StoredThree ==
  LET p == ParseSheet(FileOf(<<HeaderId, HeaderName, HeaderExtra>>,
                             <<<<Num(1), NameA, NameB>>>>))
  IN [headers |-> p.headers, rows |-> p.rows]

InitKeys == Restored("k", StoredThree)

NextKeys ==
  \/ HandleUpdateCurrentSheet
  \/ CancelFileDialog
  \/ fileDialogOpen /\ \E file \in FilesRev1 : HandleFileChangeRev1(file)
  \/ \E i \in DOMAIN readers : ReaderOnLoad(i)
  \/ \E i \in DOMAIN readers : ReaderOnError(i)
  \/ HandleConfirmUpdateRev1
  \/ PendingFileEffectRev1
  \/ HandleCancelPreview
  \/ CloseMergeReport

SpecKeys == InitKeys /\ [][NextKeys]_vars

\* C20: in every table handed to the store, after a confirmed preview and
\* after every merge, the key set of each row equals the header set of the
\* table.
C20_RowKeys ==
  \A k \in DOMAIN allSheets :
    \A i \in DOMAIN allSheets[k].data.rows :
      DOMAIN allSheets[k].data.rows[i] = Range(allSheets[k].data.headers)

(***************************************************************************)
(* Header specification: a two-row file is loaded from the main menu and   *)
(* its preview is confirmed as a new dataset.                              *)
(***************************************************************************)
HeaderFiles == {file \in IngestFiles : Len(file.allData) = 2}

NextHeaders ==
  \/ HandleLoadNewFile
  \/ CancelFileDialog
  \/ fileDialogOpen /\ \E file \in HeaderFiles : HandleFileChangeRev1(file)
  \/ \E i \in DOMAIN readers : ReaderOnLoad(i)
  \/ \E key \in SheetKeys : HandleConfirmNewRev1(key)
  \/ HandleCancelPreview
  \/ HandleBackToMainMenu

SpecHeaders == Init /\ [][NextHeaders]_vars

\* C21: the headers of every table in the sheet map (each was handed to
\* the store when it was put there) are non-empty, trimmed and pairwise
\* distinct.
C21_Headers ==
  \A k \in DOMAIN allSheets :
    LET headers == allSheets[k].data.headers
    IN /\ \A i \in DOMAIN headers : headers[i] # <<>> /\ Trim(headers[i]) = headers[i]
       /\ \A i, j \in DOMAIN headers : headers[i] = headers[j] => i = j

(***************************************************************************)
(* Shrink specification: the restored table is scrolled, within the height *)
(* the browser lays out for it, and filtered on its second column.         *)
(***************************************************************************)
FilterTwo == <<"2">>

\* the height of the table body as rendered: the two pads and the rows
LaidOutHeight(rows) ==
  Window(rows).paddingTop + Len(Window(rows).visibleRows) * ROW_HEIGHT
    + Window(rows).paddingBottom

NextShrink ==
  \/ \E newScrollTop \in ScrollOffsets :
       /\ \E rows \in ProcessedRows : newScrollTop <= LaidOutHeight(rows)
       /\ HandleScroll(newScrollTop)
  \/ ScrollFrame
  \/ ContainerResize(370)
  \/ \E value \in {FilterTwo, <<>>} : HandleFilterChange(ColValue, value)
  \/ FilterTimeout

SpecShrink == InitViewport /\ [][NextShrink]_vars

\* C22: in every render the leading pad, the materialized rows and the
\* trailing pad add up to the height of all processed rows.
C22_PadConsistency ==
  TableMounted =>
    \A rows \in ProcessedRows :
      Window(rows).paddingTop + Len(Window(rows).visibleRows) * 37
        + Window(rows).paddingBottom = Len(rows) * 37

(***************************************************************************)
(* Scroll coalescing.  scrollTimeoutRef holds the offset of the most       *)
(* recent scroll event while its frame is pending.                         *)
(***************************************************************************)
\* C23: at most one scroll update is pending for the next animation frame;
\* a scroll event leaves only its own update pending and does not change
\* the applied offset; when the frame fires, the offset applied is the one
\* of the most recent scroll event.
C23_ScrollCoalescing ==
  [][/\ Len(animationFrames') <= 1
     /\ scrollTimeoutRef' # NoFrame =>
          animationFrames' = <<scrollTimeoutRef'.newScrollTop>>
     /\ scrollTop' # scrollTop =>
          /\ scrollTimeoutRef # NoFrame
          /\ scrollTop' = scrollTimeoutRef.newScrollTop
          /\ animationFrames' = <<>>]_vars

\* a frame has applied the offset 185 and the update of a later scroll
\* event to 37 is pending
C23_Witness ==
  /\ scrollTop = 185
  /\ scrollTimeoutRef # NoFrame /\ scrollTimeoutRef.newScrollTop = 37
  /\ animationFrames = <<37>>

(***************************************************************************)
(* Filter reset specification: the restored table is filtered, left for    *)
(* the main menu and selected again.                                       *)
(***************************************************************************)
NextFilterReset ==
  \/ \E value \in {FilterM, <<>>} : HandleFilterChange(ColDept, value)
  \/ FilterTimeout
  \/ HandleBackToMainMenu
  \/ \E sheetKey \in SheetKeys : HandleSelectSheetFromMenu(sheetKey)

SpecFilterReset == InitQuery /\ [][NextFilterReset]_vars

\* C24: while the visible filter state is the empty one a reset leaves
\* (no keystroke since), the applied filter state is empty too.
C24_NoStaleFilter == filters = EmptyMap => debouncedFilters = EmptyMap

(***************************************************************************)
(* Resolution of a confirmed update.  React runs a due effect; the user    *)
(* owes no step.                                                           *)
(***************************************************************************)
StoredPair ==
  LET p == ParseSheet(FileOf(<<HeaderId, HeaderName>>, <<<<Num(1), NameA>>>>))
  IN [headers |-> p.headers, rows |-> p.rows]

PendingFiles ==
  {FileOf(<<HeaderId, HeaderName>>, <<<<Num(1), NameB>>>>),
   FileOf(<<HeaderName, HeaderId>>, <<<<NameA, Num(2)>>>>)}

NextPending ==
  \/ HandleLoadNewFile
  \/ HandleUpdateCurrentSheet
  \/ CancelFileDialog
  \/ fileDialogOpen /\ \E file \in PendingFiles : HandleFileChangeRev1(file)
  \/ \E i \in DOMAIN readers : ReaderOnLoad(i)
  \/ HandleConfirmUpdateRev1
  \/ PendingFileEffectRev1
  \/ HandleCancelPreview
  \/ CloseMergeReport
  \/ HandleBackToMainMenu
  \/ \E sheetKey \in SheetKeys : HandleSelectSheetFromMenu(sheetKey)

SpecPending == Restored("k", StoredPair) /\ [][NextPending]_vars

FairPending == SpecPending /\ WF_vars(PendingFileEffectRev1)

\* C25: once the data of a confirmed update is pending, it is eventually
\* cleared, by a committed merge with its report or by an error.
C25_PendingResolved ==
  (pendingFileData # NoData) ~>
    (pendingFileData = NoData /\ (mergeReport # NoReport \/ alertMsg # ""))

(***************************************************************************)
(* Drop and delete specification, second revision: a file is dropped on    *)
(* the restored table and the table deleted while the file is read.        *)
(***************************************************************************)
NextDropClear ==
  \/ Len(readers) < MaxInFlight /\
       \E files \in SelectionsRev2 : HandleDrop(files)
  \/ \E i \in DOMAIN readers, loaded \in BOOLEAN : MultipleFilesStep(i, loaded)
  \/ \E i \in DOMAIN readers : ReaderOnLoad(i)
  \/ CloseMergeReport
  \/ HandleCancelPreview
  \/ HandleClearCurrentSheet
  \/ HandleBackToMainMenu
  \/ \E sheetKey \in SheetKeys : HandleSelectSheetFromMenu(sheetKey)

SpecDropClear == InitSortRev2 /\ [][NextDropClear]_vars

\* C26: a multi-file merge commits against the dataset as it is when the
\* decode completes: its target is still in the sheet map and in the store
\* and the rows it merged into are the target's rows of that moment.
C26_CommitTimeState ==
  [][(MergeDone /\ merged'.via = "multi") =>
       /\ merged'.key \in DOMAIN allSheets
       /\ merged'.key \in DOMAIN store
       /\ merged'.existing = allSheets[merged'.key].data]_vars

\* C27: after every successful first-column merge the merged table has as
\* many rows as the previously stored table plus the entries of report.new,
\* and no identity is listed in both report.updated and report.new.
C27_ReportRowCount ==
  (MergeShownByKey /\ alertMsg = "") =>
    /\ Len(SheetRows) = Len(merged.existing.rows) + Len(mergeReport.new)
    /\ Range(mergeReport.updated) \cap Range(mergeReport.new) = {}

(***************************************************************************)
(* Filter strings without a term.                                          *)
(***************************************************************************)
\* the columns whose applied filter string is non-empty and has no term
TermlessColumns ==
  {key \in FilteredColumns : TermsOf(debouncedFilters[key]) = {}}

\* the applied filter state with every termless filter string cleared
TermlessCleared ==
  [key \in DOMAIN debouncedFilters |->
     IF key \in TermlessColumns THEN <<>> ELSE debouncedFilters[key]]

\* C28 as stated: a filter string without a term is equivalent to no
\* filter on its column; it excludes no row, null-valued rows included.
C28_Original ==
  HasCurrentSheet => FilterOutput = FilterRows(TableRows, TermlessCleared)

\* C28, amended: a filter string without a term excludes exactly the rows
\* whose value in its column is null or absent; on the other rows it is
\* equivalent to no filter on that column.
C28_TermlessFilter ==
  HasCurrentSheet =>
    FilterOutput =
      SelectSeq(FilterRows(TableRows, TermlessCleared),
                LAMBDA row : \A key \in TermlessColumns :
                   ~IsNullish(Get(row, key)))

\* only a filter string without a term is applied: it leaves out a row with
\* a null in its column and keeps every other row
C28_Witness ==
  /\ FilteredColumns = {ColDept}
  /\ TermlessColumns = {ColDept}
  /\ Len(FilterOutput) < Len(TableRows)
  /\ Len(FilterOutput) =
       Cardinality({i \in DOMAIN TableRows : TableRows[i][ColDept] # Null})
  /\ FilterOutput # <<>>

(***************************************************************************)
(* Screen.                                                                  *)
(***************************************************************************)
\* C29: the screen is never blank: the main menu is shown or the current
\* key names a dataset of the sheet map; the main menu is shown exactly
\* when no dataset is current.
C29_NeverBlank ==
  /\ showMainMenu \/ currentSheetKey \in DOMAIN allSheets
  /\ showMainMenu <=> currentSheetKey = NoKey

\* a dataset created while the store rejected the write is on screen: it is
\* in the sheet map only
C29_Witness ==
  /\ ~showMainMenu
  /\ currentSheetKey # NoKey
  /\ currentSheetKey \in DOMAIN allSheets
  /\ currentSheetKey \notin DOMAIN store
  /\ ~showDataPreview

(***************************************************************************)
(* Creation of a dataset from the preview.                                  *)
(***************************************************************************)
\* the preview of a new dataset is confirmed and accepted in this step
NewSheetConfirmed ==
  /\ PreviewShown /\ IsNewSheet
  /\ ~showDataPreview'
  /\ currentSheetKey' # NoKey

\* the preview of a new dataset is confirmed and rejected for its key
NewSheetRejected == PreviewShown /\ IsNewSheet /\ alertMsg' = ErrExists

====
